---- MODULE Spec2Model ----
(***************************************************************************)
(* A model of the gabalah instruction-execution core: the register file    *)
(* and memory (src/src/memory/ram.rs), the ALU (src/src/cpu/alu.rs), the   *)
(* operand layer and Instruction::execute (src/src/cpu/ops.rs), the        *)
(* instruction table (src/src/cpu/map.rs) and Cpu (src/src/cpu/cpu.rs).    *)
(*                                                                         *)
(* Rust integer arithmetic written with + and - panics on overflow in a    *)
(* debug build and wraps in a release build; debug_assert! is checked in   *)
(* a debug build only.  The variable build holds the profile.              *)
(***************************************************************************)
EXTENDS Integers, Sequences, FiniteSets, TLC

VARIABLES
    build,   \* "debug" or "release": the cargo profile of the running binary
    r,       \* Registers
    m,       \* Ram.cells, as the function of its nonzero cells
    fault,   \* "none", or the panic that ended the program
    trace,   \* the calls of execute made so far, each with the state before it
    tbl,     \* progress of Cpu::new / build_opcode_map
    alu      \* the call of an ALU function made directly, with its result

vars == <<build, r, m, fault, trace, tbl, alu>>

Byte == 0..255
Word == 0..65535
Builds == {"debug", "release"}

(***************************************************************************)
(* Bytes (memory/ram.rs): a value of one or two bytes.                     *)
(***************************************************************************)
One(v) == [w |-> 1, v |-> v]
Two(v) == [w |-> 2, v |-> v]

from_bytes(lo_byte, hi_byte) == Two(hi_byte * 256 + lo_byte)

hi(word) == word \div 256

lo(word) == word % 256

(***************************************************************************)
(* Flags for u8 (cpu/alu.rs) and the bit masks (cpu/ops.rs).               *)
(***************************************************************************)
ZERO_FLAG_BITMASK == 128
SUBTRACTION_FLAG_BITMASK == 64
HALF_CARRY_FLAG_BITMASK == 32
CARRY_FLAG_BITMASK == 16

\* f & mask != 0, for a mask of one bit
TestMask(f, mask) == (f \div mask) % 2 = 1

\* f |= mask when value, f &= !mask otherwise, for a mask of one bit
AssignMask(f, mask, value) ==
    IF value
    THEN (IF TestMask(f, mask) THEN f ELSE f + mask)
    ELSE (IF TestMask(f, mask) THEN f - mask ELSE f)

zero(f) == TestMask(f, ZERO_FLAG_BITMASK)
set_zero(f, value) == AssignMask(f, ZERO_FLAG_BITMASK, value)
subtraction(f) == TestMask(f, SUBTRACTION_FLAG_BITMASK)
set_subtraction(f, value) == AssignMask(f, SUBTRACTION_FLAG_BITMASK, value)
half_carry(f) == TestMask(f, HALF_CARRY_FLAG_BITMASK)
set_half_carry(f, value) == AssignMask(f, HALF_CARRY_FLAG_BITMASK, value)
carry(f) == TestMask(f, CARRY_FLAG_BITMASK)
set_carry(f, value) == AssignMask(f, CARRY_FLAG_BITMASK, value)

BoolToInt(b) == IF b THEN 1 ELSE 0

\* a wrapping_sub / wrapping_add result brought back into the width
Wrap(x, modulus) == ((x % modulus) + modulus) % modulus

\* x + k on u16: a debug build panics on overflow, a release build wraps
AddU16(x, k) ==
    IF x + k > 65535 /\ build = "debug"
    THEN [v |-> x, fault |-> "attempt to add with overflow"]
    ELSE [v |-> Wrap(x + k, 65536), fault |-> "none"]

\* x - k on u16: a debug build panics on overflow, a release build wraps
SubU16(x, k) ==
    IF x - k < 0 /\ build = "debug"
    THEN [v |-> x, fault |-> "attempt to subtract with overflow"]
    ELSE [v |-> Wrap(x - k, 65536), fault |-> "none"]

(***************************************************************************)
(* The ALU (cpu/alu.rs).  Each function returns the result, the flags      *)
(* byte it leaves and the panic it ended in, if any.                       *)
(***************************************************************************)
AluOk(res, f) == [res |-> res, f |-> f, fault |-> "none"]
AluPanic(res, f, why) == [res |-> res, f |-> f, fault |-> why]

\* an add whose 16-bit arm would set Z from the result
add_WideSetsZero(value1, value2, flags) ==
    IF value1.w = 1 /\ value2.w = 1 THEN
        LET result == (value1.v + value2.v) % 256
            f1 == set_zero(flags, result = 0)
            f2 == set_subtraction(f1, FALSE)
            f3 == set_half_carry(f2, (value1.v % 16) + (value2.v % 16) > 15)
            f4 == set_carry(f3, value1.v + value2.v > 255)
        IN  AluOk(One(result), f4)
    ELSE IF value1.w = 2 /\ value2.w = 2 THEN
        LET result == (value1.v + value2.v) % 65536
            f0 == set_zero(flags, result = 0)
            f1 == set_subtraction(f0, FALSE)
            f2 == set_half_carry(f1, (value1.v % 4096) + (value2.v % 4096) > 4095)
            f3 == set_carry(f2, value1.v + value2.v > 65535)
        IN  AluOk(Two(result), f3)
    ELSE AluPanic(value1, flags, "Invalid arguments")

add(value1, value2, flags) ==
    IF value1.w = 1 /\ value2.w = 1 THEN
        LET result == (value1.v + value2.v) % 256
            f1 == set_zero(flags, result = 0)
            f2 == set_subtraction(f1, FALSE)
            f3 == set_half_carry(f2, (value1.v % 16) + (value2.v % 16) > 15)
            f4 == set_carry(f3, value1.v + value2.v > 255)
        IN  AluOk(One(result), f4)
    ELSE IF value1.w = 2 /\ value2.w = 2 THEN
        LET result == (value1.v + value2.v) % 65536
            f1 == set_subtraction(flags, FALSE)
            f2 == set_half_carry(f1, (value1.v % 4096) + (value2.v % 4096) > 4095)
            f3 == set_carry(f2, value1.v + value2.v > 65535)
        IN  AluOk(Two(result), f3)
    ELSE AluPanic(value1, flags, "Invalid arguments")

\* adc with the carry-in left out of the half-carry sum
adc_HalfWithoutCarryIn(value1, value2, flags) ==
    IF value1.w = 1 /\ value2.w = 1 THEN
        LET c == BoolToInt(carry(flags))
            result == (value1.v + value2.v + c) % 256
            f1 == set_zero(flags, result = 0)
            f2 == set_subtraction(f1, FALSE)
            f3 == set_half_carry(f2, (value1.v % 16) + (value2.v % 16) > 15)
            f4 == set_carry(f3, value1.v + value2.v + c > 255)
        IN  AluOk(One(result), f4)
    ELSE AluPanic(value1, flags, "Invalid arguments")

adc(value1, value2, flags) ==
    IF value1.w = 1 /\ value2.w = 1 THEN
        LET c == BoolToInt(carry(flags))
            result == (value1.v + value2.v + c) % 256
            f1 == set_zero(flags, result = 0)
            f2 == set_subtraction(f1, FALSE)
            f3 == set_half_carry(f2, (value1.v % 16) + (value2.v % 16) + c > 15)
            f4 == set_carry(f3, value1.v + value2.v + c > 255)
        IN  AluOk(One(result), f4)
    ELSE IF value1.w = 2 /\ value2.w = 2 THEN
        LET c == BoolToInt(carry(flags))
            result == (value1.v + value2.v + c) % 65536
            f1 == set_subtraction(flags, FALSE)
            f2 == set_half_carry(f1, (value1.v % 4096) + (value2.v % 4096) + c > 4095)
            f3 == set_carry(f2, value1.v + value2.v + c > 65535)
        IN  AluOk(Two(result), f3)
    ELSE AluPanic(value1, flags, "Invalid arguments")

\* a sub whose H would be the borrow into bit 4
sub_HalfFromBorrow(value1, value2, flags) ==
    IF value1.w = 1 /\ value2.w = 1 THEN
        LET result == Wrap(value1.v - value2.v, 256)
            f1 == set_zero(flags, result = 0)
            f2 == set_subtraction(f1, TRUE)
            f3 == set_half_carry(f2, (value1.v % 16) < (value2.v % 16))
            f4 == set_carry(f3, value1.v < value2.v)
        IN  AluOk(One(result), f4)
    ELSE IF value1.w = 2 /\ value2.w = 2 THEN
        LET result == Wrap(value1.v - value2.v, 65536)
            f1 == set_subtraction(flags, TRUE)
            f2 == set_half_carry(f1, (value1.v % 4096) < (value2.v % 4096))
            f3 == set_carry(f2, value1.v < value2.v)
        IN  AluOk(Two(result), f3)
    ELSE AluPanic(value1, flags, "Invalid arguments")

sub(value1, value2, flags) ==
    IF value1.w = 1 /\ value2.w = 1 THEN
        LET result == Wrap(value1.v - value2.v, 256)
            f1 == set_zero(flags, result = 0)
            f2 == set_subtraction(f1, TRUE)
            f3 == set_half_carry(f2, (value1.v % 16) + (value2.v % 16) > 15)
            f4 == set_carry(f3, value1.v < value2.v)
        IN  AluOk(One(result), f4)
    ELSE IF value1.w = 2 /\ value2.w = 2 THEN
        LET result == Wrap(value1.v - value2.v, 65536)
            f1 == set_subtraction(flags, TRUE)
            f2 == set_half_carry(f1, (value1.v % 4096) + (value2.v % 4096) > 4095)
            f3 == set_carry(f2, value1.v < value2.v)
        IN  AluOk(Two(result), f3)
    ELSE AluPanic(value1, flags, "Invalid arguments")

\* an inc whose half carry would never be set
inc_NoHalfCarry(value, flags) ==
    IF value.w = 1 THEN
        LET result == (value.v + 1) % 256
            f1 == set_zero(flags, result = 0)
            f2 == set_subtraction(f1, FALSE)
            f3 == set_half_carry(f2, FALSE)
        IN  AluOk(One(result), f3)
    ELSE AluOk(Two((value.v + 1) % 65536), flags)

inc(value, flags) ==
    IF value.w = 1 THEN
        LET result == (value.v + 1) % 256
            f1 == set_zero(flags, result = 0)
            f2 == set_subtraction(f1, FALSE)
            f3 == set_half_carry(f2, (value.v % 16) + 1 > 15)
        IN  AluOk(One(result), f3)
    ELSE AluOk(Two((value.v + 1) % 65536), flags)

\* a dec that would leave the zero flag as it found it
dec_KeepsZero(value, flags) ==
    IF value.w = 1 THEN
        LET result == Wrap(value.v - 1, 256)
            f2 == set_subtraction(flags, TRUE)
            f3 == set_half_carry(f2, (value.v % 16) = 0)
        IN  AluOk(One(result), f3)
    ELSE AluOk(Two(Wrap(value.v - 1, 65536)), flags)

dec(value, flags) ==
    IF value.w = 1 THEN
        LET result == Wrap(value.v - 1, 256)
            f1 == set_zero(flags, result = 0)
            f2 == set_subtraction(f1, TRUE)
            f3 == set_half_carry(f2, (value.v % 16) = 0)
        IN  AluOk(One(result), f3)
    ELSE AluOk(Two(Wrap(value.v - 1, 65536)), flags)

\* *value2 + carry is a plain + on the operand's width: it overflows for
\* value2 = MAX with the carry set, after Z, N and H have been stored
sbc(value1, value2, flags) ==
    IF value1.w = value2.w THEN
        LET width == IF value1.w = 1 THEN 256 ELSE 65536
            half == IF value1.w = 1 THEN 16 ELSE 4096
            c == BoolToInt(carry(flags))
            result == Wrap(value1.v - value2.v - c, width)
            f1 == IF value1.w = 1 THEN set_zero(flags, result = 0) ELSE flags
            f2 == set_subtraction(f1, TRUE)
            f3 == set_half_carry(f2, (value1.v % half) < (value2.v % half) + c)
            res == IF value1.w = 1 THEN One(result) ELSE Two(result)
        IN  IF value2.v + c >= width /\ build = "debug"
            THEN AluPanic(value1, f3, "attempt to add with overflow")
            ELSE AluOk(res, set_carry(f3, value1.v < (value2.v + c) % width))
    ELSE AluPanic(value1, flags, "Invalid arguments")

\* the four rotates store Z = N = H = 0 and the carry given
RotateFlags(flags, c) ==
    set_carry(set_half_carry(set_subtraction(set_zero(flags, FALSE), FALSE), FALSE), c)

rlc(value, flags) ==
    [res |-> ((value * 2) % 256) + (value \div 128),
     f |-> RotateFlags(flags, value \div 128 = 1)]

rrc(value, flags) ==
    [res |-> (value \div 2) + ((value % 2) * 128),
     f |-> RotateFlags(flags, value % 2 = 1)]

\* an rl that would bring bit 7 round and leave the incoming carry out
rl_Circular(value, flags) ==
    [res |-> ((value * 2) % 256) + (value \div 128),
     f |-> RotateFlags(flags, value \div 128 = 1)]

rl(value, flags) ==
    [res |-> ((value * 2) % 256) + BoolToInt(carry(flags)),
     f |-> RotateFlags(flags, value \div 128 = 1)]

rr(value, flags) ==
    [res |-> (value \div 2) + (BoolToInt(carry(flags)) * 128),
     f |-> RotateFlags(flags, value % 2 = 1)]

daa(a, f) ==
    LET a1 == IF subtraction(f)
              THEN Wrap(a - ((IF half_carry(f) THEN 6 ELSE 0)
                             + (IF carry(f) THEN 96 ELSE 0)), 256)
              ELSE (a + (IF half_carry(f) \/ (a % 16) > 9 THEN 6 ELSE 0)
                      + (IF carry(f) \/ a > 153 THEN 96 ELSE 0)) % 256
        f1 == IF ~subtraction(f) /\ (carry(f) \/ a > 153)
              THEN set_carry(f, TRUE) ELSE f
    IN  [a |-> a1, f |-> set_half_carry(set_zero(f1, a1 = 0), FALSE)]

\* the bitwise operators of u8, bit by bit
RECURSIVE Bitwise(_, _, _, _)
Bitwise(table, x, y, bits) ==
    IF bits = 0 THEN 0
    ELSE table[x % 2][y % 2] + 2 * Bitwise(table, x \div 2, y \div 2, bits - 1)

BitAnd(x, y) == Bitwise([p \in 0..1 |-> [q \in 0..1 |-> p * q]], x, y, 8)
BitOr(x, y) == Bitwise([p \in 0..1 |-> [q \in 0..1 |-> p + q - p * q]], x, y, 8)
BitXor(x, y) == Bitwise([p \in 0..1 |-> [q \in 0..1 |-> (p + q) % 2]], x, y, 8)

\* and, xor and or store Z from the result, N = 0, C = 0 and the H given
LogicFlags(flags, result, h) ==
    set_carry(set_half_carry(set_subtraction(set_zero(flags, result = 0), FALSE), h), FALSE)

\* an and that would clear H as or and xor do
and_HalfClear(value1, value2, flags) ==
    [res |-> BitAnd(value1, value2), f |-> LogicFlags(flags, BitAnd(value1, value2), FALSE)]

and(value1, value2, flags) ==
    [res |-> BitAnd(value1, value2), f |-> LogicFlags(flags, BitAnd(value1, value2), TRUE)]

xor(value1, value2, flags) ==
    [res |-> BitXor(value1, value2), f |-> LogicFlags(flags, BitXor(value1, value2), FALSE)]

or(value1, value2, flags) ==
    [res |-> BitOr(value1, value2), f |-> LogicFlags(flags, BitOr(value1, value2), FALSE)]

cp(value1, value2, flags) ==
    LET result == Wrap(value1 - value2, 256)
        f1 == set_zero(flags, result = 0)
        f2 == set_subtraction(f1, TRUE)
        f3 == set_half_carry(f2, (value1 % 16) < (value2 % 16))
    IN  set_carry(f3, value1 < value2)

(***************************************************************************)
(* Registers, Addr and Ram (memory/ram.rs).                                *)
(***************************************************************************)
RAM_SIZE == 65536

\* #[derive(Default)]: every register 0
Registers_default ==
    [a |-> 0, b |-> 0, c |-> 0, d |-> 0, e |-> 0, h |-> 0, l |-> 0, f |-> 0,
     sp |-> 0, pc |-> 0]

Registers_new == [Registers_default EXCEPT !.pc = 256]

\* an af that would take F as the high cell
af_Swapped(rg) == from_bytes(rg.a, rg.f)

af(rg) == from_bytes(rg.f, rg.a)
bc(rg) == from_bytes(rg.c, rg.b)
hl(rg) == from_bytes(rg.l, rg.h)
de(rg) == from_bytes(rg.e, rg.d)

\* Bytes::lo and Bytes::hi panic on a Bytes::One, before either cell is set
set_bc(rg, bytes) ==
    IF bytes.w = 2
    THEN [r |-> [rg EXCEPT !.c = lo(bytes.v), !.b = hi(bytes.v)], fault |-> "none"]
    ELSE [r |-> rg, fault |-> "Expected a 16-bit value"]

set_hl(rg, bytes) ==
    IF bytes.w = 2
    THEN [r |-> [rg EXCEPT !.l = lo(bytes.v), !.h = hi(bytes.v)], fault |-> "none"]
    ELSE [r |-> rg, fault |-> "Expected a 16-bit value"]

\* Addr::next: None at u16::MAX
next(address) ==
    IF address < 65535 THEN [some |-> TRUE, a |-> address + 1]
    ELSE [some |-> FALSE, a |-> address]

\* Ram::new: 65,536 cells, all 0 (the model keeps the nonzero cells only)
Ram_new == [a \in {} |-> 0]

get(cells, address) == IF address \in DOMAIN cells THEN cells[address] ELSE 0

set(cells, address, value) ==
    IF value = 0
    THEN [a \in DOMAIN cells \ {address} |-> cells[a]]
    ELSE [a \in DOMAIN cells \cup {address} |-> IF a = address THEN value ELSE cells[a]]

\* a set_word that would store the high byte first
set_word_HighFirst(cells, address, values) ==
    IF build = "debug" /\ values.w # 2
    THEN [m |-> cells, fault |-> "assertion failed: values.is_two()"]
    ELSE IF build = "debug" /\ ~(address < 65535)
    THEN [m |-> cells, fault |-> "assertion failed: address.0 < u16::MAX"]
    ELSE IF values.w # 2
    THEN [m |-> cells, fault |-> "Expected a 16-bit value"]
    ELSE IF address + 1 >= RAM_SIZE
    THEN [m |-> set(cells, address, hi(values.v)), fault |-> "index out of bounds"]
    ELSE [m |-> set(set(cells, address, hi(values.v)), address + 1, lo(values.v)),
          fault |-> "none"]

\* Ram::set_word: two debug_assert!s, then cells[address] = values.lo() and
\* cells[address + 1] = values.hi(), the second index out of bounds at 0xFFFF
set_word(cells, address, values) ==
    IF build = "debug" /\ values.w # 2
    THEN [m |-> cells, fault |-> "assertion failed: values.is_two()"]
    ELSE IF build = "debug" /\ ~(address < 65535)
    THEN [m |-> cells, fault |-> "assertion failed: address.0 < u16::MAX"]
    ELSE IF values.w # 2
    THEN [m |-> cells, fault |-> "Expected a 16-bit value"]
    ELSE IF address + 1 >= RAM_SIZE
    THEN [m |-> set(cells, address, lo(values.v)), fault |-> "index out of bounds"]
    ELSE [m |-> set(set(cells, address, lo(values.v)), address + 1, hi(values.v)),
          fault |-> "none"]

\* Ram::get_word: None at 0xFFFF
get_word(cells, address) ==
    IF next(address).some
    THEN [some |-> TRUE, v |-> get(cells, next(address).a) * 256 + get(cells, address)]
    ELSE [some |-> FALSE, v |-> 0]

(***************************************************************************)
(* Location and Operand (cpu/ops.rs).                                      *)
(***************************************************************************)
Locations ==
    {"A", "B", "C", "D", "E", "H", "L", "AF", "BC", "HL", "DE", "SP",
     "Const8", "Const16", "FlagNz", "FlagZ", "FlagNc", "FlagC"}

imm(loc) == [mode |-> "Immediate", loc |-> loc]
ind(loc) == [mode |-> "Memory", loc |-> loc]
high(loc) == [mode |-> "HighMemory", loc |-> loc]

Read(bytes) == [b |-> bytes, fault |-> "none"]
ReadPanic(why) == [b |-> One(0), fault |-> why]

\* Location::read
Location_read(loc, rg, cells) ==
    CASE loc = "A" -> Read(One(rg.a))
      [] loc = "B" -> Read(One(rg.b))
      [] loc = "C" -> Read(One(rg.c))
      [] loc = "D" -> Read(One(rg.d))
      [] loc = "E" -> Read(One(rg.e))
      [] loc = "H" -> Read(One(rg.h))
      [] loc = "L" -> Read(One(rg.l))
      [] loc = "AF" -> Read(af(rg))
      [] loc = "BC" -> Read(bc(rg))
      [] loc = "HL" -> Read(hl(rg))
      [] loc = "DE" -> Read(de(rg))
      [] loc = "SP" -> Read(Two(rg.sp))
      [] loc = "Const8" ->
            IF next(rg.pc).some THEN Read(One(get(cells, next(rg.pc).a)))
            ELSE ReadPanic("called Option::unwrap() on a None value")
      [] loc = "Const16" ->
            IF next(rg.pc).some /\ next(next(rg.pc).a).some
            THEN Read(from_bytes(get(cells, next(rg.pc).a),
                                 get(cells, next(next(rg.pc).a).a)))
            ELSE ReadPanic("called Option::unwrap() on a None value")
      [] loc = "FlagNz" -> Read(One(BoolToInt(~zero(rg.f))))
      [] loc = "FlagZ" -> Read(One(BoolToInt(zero(rg.f))))
      [] loc = "FlagNc" -> Read(One(BoolToInt(~carry(rg.f))))
      [] loc = "FlagC" -> Read(One(BoolToInt(carry(rg.f))))

Wrote(rg, cells) == [r |-> rg, m |-> cells, fault |-> "none"]
WritePanic(rg, cells, why) == [r |-> rg, m |-> cells, fault |-> why]
WroteRegisters(set_to, cells) == [r |-> set_to.r, m |-> cells, fault |-> set_to.fault]
WroteMemory(rg, stored) == [r |-> rg, m |-> stored.m, fault |-> stored.fault]

\* Location::write: A and BC only, every other Location panics
Location_write(loc, rg, cells, values) ==
    CASE loc = "A" ->
            IF values.w = 1 THEN Wrote([rg EXCEPT !.a = values.v], cells)
            ELSE WritePanic(rg, cells, "expected single byte")
      [] loc = "BC" -> WroteRegisters(set_bc(rg, values), cells)
      [] OTHER -> WritePanic(rg, cells, "explicit panic")

\* the address a Memory operand names: Bytes into Addr, which wants a Bytes::Two
MemoryAddr(bytes) ==
    IF bytes.w = 2 THEN [a |-> bytes.v, fault |-> "none"]
    ELSE [a |-> 0, fault |-> "Expected a 16-bit value"]

\* the address a HighMemory operand names: from_bytes(single byte, 0xFF)
HighMemoryAddr(bytes) ==
    IF bytes.w = 1 THEN [a |-> 255 * 256 + bytes.v, fault |-> "none"]
    ELSE [a |-> 0, fault |-> "expected single byte"]

\* the address of a Memory or HighMemory operand, after reading its Location
OperandAddr(op, rg, cells) ==
    LET Of(at) ==
            IF at.fault # "none" THEN [a |-> 0, fault |-> at.fault]
            ELSE IF op.mode = "Memory" THEN MemoryAddr(at.b)
            ELSE HighMemoryAddr(at.b)
    IN  Of(Location_read(op.loc, rg, cells))

\* Operand::read
Operand_read(op, rg, cells) ==
    LET At(at) ==
            IF at.fault # "none" THEN ReadPanic(at.fault)
            ELSE Read(One(get(cells, at.a)))
    IN  IF op.mode = "Immediate" THEN Location_read(op.loc, rg, cells)
        ELSE At(OperandAddr(op, rg, cells))

\* Operand::write: a Memory or HighMemory operand stores through Ram::set_word
Operand_write(op, rg, cells, values) ==
    LET At(at) ==
            IF at.fault # "none" THEN WritePanic(rg, cells, at.fault)
            ELSE WroteMemory(rg, set_word(cells, at.a, values))
    IN  IF op.mode = "Immediate" THEN Location_write(op.loc, rg, cells, values)
        ELSE At(OperandAddr(op, rg, cells))

Got(v) == [v |-> v, fault |-> "none"]
GotPanic(why) == [v |-> 0, fault |-> why]

\* Operand::read(..).single().expect("expected single byte")
ReadSingle(op, rg, cells) ==
    LET Single(got) ==
            IF got.fault # "none" THEN GotPanic(got.fault)
            ELSE IF got.b.w # 1 THEN GotPanic("expected single byte")
            ELSE Got(got.b.v)
    IN  Single(Operand_read(op, rg, cells))

(***************************************************************************)
(* Mnemonic and Instruction (cpu/ops.rs).                                  *)
(***************************************************************************)
\* a Mnemonic with its Operands; Rst carries its address, Invalid its label
Mn(name, operands) == [mn |-> name, ops |-> operands, arg |-> 0, label |-> ""]
MnRst(address) == [mn |-> "Rst", ops |-> <<>>, arg |-> address, label |-> ""]
MnInvalid(msg) == [mn |-> "Invalid", ops |-> <<>>, arg |-> 0, label |-> msg]

\* Instruction::new_ex
I_new_ex(mnemonic, nbytes, cycles) ==
    [mn |-> mnemonic.mn, ops |-> mnemonic.ops, arg |-> mnemonic.arg,
     label |-> mnemonic.label, bytes |-> nbytes, cycles |-> cycles]

\* an Instruction::new that would declare every instruction one byte long
I_new_OneByte(mnemonic, nbytes, cycles) == I_new_ex(mnemonic, 1, <<cycles>>)

\* Instruction::new
I_new(mnemonic, nbytes, cycles) == I_new_ex(mnemonic, nbytes, <<cycles>>)

\* offset as i8
Signed8(byte) == IF byte >= 128 THEN byte - 256 ELSE byte

\* what a match arm leaves: registers, memory, the panic if any, and new_pc
NoPc == [some |-> FALSE, v |-> 0]
SomePc(v) == [some |-> TRUE, v |-> v]
X(rg, cells, why, new_pc) == [r |-> rg, m |-> cells, fault |-> why, new_pc |-> new_pc]

(***************************************************************************)
(* Instruction::execute (cpu/ops.rs), arm by arm.                          *)
(***************************************************************************)
\* an arm that ends with a write: the registers, memory and panic it leaves
XW(w) == X(w.r, w.m, w.fault, NoPc)

I_Ld(dst, src, rg, cells) ==
    LET Store(v) ==
            IF v.fault # "none" THEN X(rg, cells, v.fault, NoPc)
            ELSE XW(Operand_write(dst, rg, cells, v.b))
    IN  Store(Operand_read(src, rg, cells))

I_IncDec(name, dst, rg, cells) ==
    LET Store(a) == XW(Operand_write(dst, [rg EXCEPT !.f = a.f], cells, a.res))
        Change(v) ==
            IF v.fault # "none" THEN X(rg, cells, v.fault, NoPc)
            ELSE Store(IF name = "Inc" THEN inc(v.b, rg.f) ELSE dec(v.b, rg.f))
    IN  Change(Operand_read(dst, rg, cells))

\* alu::add, adc, sub, sbc by mnemonic
AluArith(name, value1, value2, flags) ==
    CASE name = "Add" -> add(value1, value2, flags)
      [] name = "Adc" -> adc(value1, value2, flags)
      [] name = "Sub" -> sub(value1, value2, flags)
      [] name = "Sbc" -> sbc(value1, value2, flags)

I_Arith(name, dst, src, rg, cells) ==
    LET Store(a) ==
            IF a.fault # "none" THEN X([rg EXCEPT !.f = a.f], cells, a.fault, NoPc)
            ELSE XW(Operand_write(dst, [rg EXCEPT !.f = a.f], cells, a.res))
        Compute(d, s) ==
            IF d.fault # "none" THEN X(rg, cells, d.fault, NoPc)
            ELSE IF s.fault # "none" THEN X(rg, cells, s.fault, NoPc)
            ELSE Store(AluArith(name, d.b, s.b, rg.f))
    IN  Compute(Operand_read(dst, rg, cells), Operand_read(src, rg, cells))

\* alu::rlc, rrc, rl, rr by mnemonic
AluRotate(name, value, flags) ==
    CASE name = "Rlca" -> rlc(value, flags)
      [] name = "Rrca" -> rrc(value, flags)
      [] name = "Rla" -> rl(value, flags)
      [] name = "Rra" -> rr(value, flags)

I_Rotate(name, rg, cells) ==
    LET Store(a) == X([rg EXCEPT !.a = a.res, !.f = a.f], cells, "none", NoPc)
    IN  Store(AluRotate(name, rg.a, rg.f))

\* a target that would take the offset byte as unsigned
JrTarget_Unsigned(pc, offset) == Wrap(pc + 2 + offset, 65536)

\* (r.pc as i32 + 2 + offset as i32) as u16
JrTarget(pc, offset) == Wrap(pc + 2 + Signed8(offset), 65536)

I_Jr(offset, rg, cells) ==
    LET Jump(o) ==
            IF o.fault # "none" THEN X(rg, cells, o.fault, NoPc)
            ELSE X(rg, cells, "none", SomePc(JrTarget(rg.pc, o.v)))
    IN  Jump(ReadSingle(offset, rg, cells))

\* a Jrc that would jump whatever the flag reads
I_Jrc_Always(cc, offset, rg, cells) ==
    LET Jump(flag, o) ==
            IF flag.fault # "none" THEN X(rg, cells, flag.fault, NoPc)
            ELSE IF o.fault # "none" THEN X(rg, cells, o.fault, NoPc)
            ELSE X(rg, cells, "none", SomePc(JrTarget(rg.pc, o.v)))
    IN  Jump(ReadSingle(cc, rg, cells), ReadSingle(offset, rg, cells))

\* the offset is read before the flag is tested
I_Jrc(cc, offset, rg, cells) ==
    LET Jump(flag, o) ==
            IF flag.fault # "none" THEN X(rg, cells, flag.fault, NoPc)
            ELSE IF o.fault # "none" THEN X(rg, cells, o.fault, NoPc)
            ELSE IF flag.v = 1 THEN X(rg, cells, "none", SomePc(JrTarget(rg.pc, o.v)))
            ELSE X(rg, cells, "none", NoPc)
    IN  Jump(ReadSingle(cc, rg, cells), ReadSingle(offset, rg, cells))

I_Daa(rg, cells) ==
    LET Store(adjusted) ==
            X([rg EXCEPT !.a = adjusted.a, !.f = adjusted.f], cells, "none", NoPc)
    IN  Store(daa(rg.a, rg.f))

I_Cpl(rg, cells) ==
    X([rg EXCEPT !.a = 255 - rg.a,
                 !.f = BitOr(rg.f, SUBTRACTION_FLAG_BITMASK + HALF_CARRY_FLAG_BITMASK)],
      cells, "none", NoPc)

I_Scf(rg, cells) ==
    X([rg EXCEPT !.f = BitOr(rg.f, CARRY_FLAG_BITMASK)], cells, "none", NoPc)

\* a Ccf that would set the carry where it should invert it
I_Ccf_SetsCarry(rg, cells) ==
    LET f1 == BitOr(rg.f, CARRY_FLAG_BITMASK)
        f2 == BitAnd(f1, 255 - SUBTRACTION_FLAG_BITMASK)
        f3 == BitAnd(f2, 255 - HALF_CARRY_FLAG_BITMASK)
    IN  X([rg EXCEPT !.f = f3], cells, "none", NoPc)

I_Ccf(rg, cells) ==
    LET f1 == BitXor(rg.f, CARRY_FLAG_BITMASK)
        f2 == BitAnd(f1, 255 - SUBTRACTION_FLAG_BITMASK)
        f3 == BitAnd(f2, 255 - HALF_CARRY_FLAG_BITMASK)
    IN  X([rg EXCEPT !.f = f3], cells, "none", NoPc)

\* alu::and, xor, or by mnemonic
AluLogic(name, value1, value2, flags) ==
    CASE name = "And" -> and(value1, value2, flags)
      [] name = "Xor" -> xor(value1, value2, flags)
      [] name = "Or" -> or(value1, value2, flags)

I_Logic(name, dst, src, rg, cells) ==
    LET Store(a) == XW(Operand_write(dst, [rg EXCEPT !.f = a.f], cells, One(a.res)))
        Compute(d, s) ==
            IF d.fault # "none" THEN X(rg, cells, d.fault, NoPc)
            ELSE IF s.fault # "none" THEN X(rg, cells, s.fault, NoPc)
            ELSE Store(AluLogic(name, d.v, s.v, rg.f))
    IN  Compute(ReadSingle(dst, rg, cells), ReadSingle(src, rg, cells))

I_Cp(dst, src, rg, cells) ==
    LET Compare(d, s) ==
            IF d.fault # "none" THEN X(rg, cells, d.fault, NoPc)
            ELSE IF s.fault # "none" THEN X(rg, cells, s.fault, NoPc)
            ELSE X([rg EXCEPT !.f = cp(d.v, s.v, rg.f)], cells, "none", NoPc)
    IN  Compare(ReadSingle(dst, rg, cells), ReadSingle(src, rg, cells))

\* Ret stores into r.pc and leaves new_pc None
I_Ret(rg, cells) ==
    LET a1 == AddU16(rg.sp, 1)
        popped == get(cells, a1.v) * 256 + get(cells, rg.sp)
        s2 == AddU16(rg.sp, 2)
    IN  IF a1.fault # "none" THEN X(rg, cells, a1.fault, NoPc)
        ELSE IF s2.fault # "none" THEN X([rg EXCEPT !.pc = popped], cells, s2.fault, NoPc)
        ELSE X([rg EXCEPT !.pc = popped, !.sp = s2.v], cells, "none", NoPc)

\* a Retc that would return whatever the flag reads
I_Retc_Always(cc, rg, cells) ==
    LET Return(flag) ==
            IF flag.fault # "none" THEN X(rg, cells, flag.fault, NoPc)
            ELSE I_Ret(rg, cells)
    IN  Return(ReadSingle(cc, rg, cells))

I_Retc(cc, rg, cells) ==
    LET Return(flag) ==
            IF flag.fault # "none" THEN X(rg, cells, flag.fault, NoPc)
            ELSE IF flag.v = 1 THEN I_Ret(rg, cells)
            ELSE X(rg, cells, "none", NoPc)
    IN  Return(ReadSingle(cc, rg, cells))

\* Stop, Halt, Reti, Ei, Di: todo!()
I_Todo(rg, cells) == X(rg, cells, "not yet implemented", NoPc)

\* Jp reads its operand twice as a single byte and stores into r.pc
I_Jp(dst, rg, cells) ==
    LET Jump(b) ==
            IF b.fault # "none" THEN X(rg, cells, b.fault, NoPc)
            ELSE X([rg EXCEPT !.pc = b.v * 256 + b.v], cells, "none", NoPc)
    IN  Jump(ReadSingle(dst, rg, cells))

I_Jpc(cc, dst, rg, cells) ==
    LET Jump(flag) ==
            IF flag.fault # "none" THEN X(rg, cells, flag.fault, NoPc)
            ELSE IF flag.v = 1 THEN I_Jp(dst, rg, cells)
            ELSE X(rg, cells, "none", NoPc)
    IN  Jump(ReadSingle(cc, rg, cells))

\* m.set(Addr(r.sp - 1), high_byte); m.set(Addr(r.sp - 2), low_byte); r.sp -= 2
PushBytes(low_byte, high_byte, rg, cells) ==
    LET a1 == SubU16(rg.sp, 1)
        m1 == set(cells, a1.v, high_byte)
        a2 == SubU16(rg.sp, 2)
        m2 == set(m1, a2.v, low_byte)
    IN  IF a1.fault # "none" THEN X(rg, cells, a1.fault, NoPc)
        ELSE IF a2.fault # "none" THEN X(rg, m1, a2.fault, NoPc)
        ELSE X([rg EXCEPT !.sp = a2.v], m2, "none", NoPc)

\* Call reads its operand twice as a single byte; the return address is r.pc + 2
I_Call(dst, rg, cells) ==
    LET Jump(b, pushed) ==
            IF pushed.fault # "none" THEN pushed
            ELSE X([pushed.r EXCEPT !.pc = b.v * 256 + b.v], pushed.m, "none", NoPc)
        Push(b, ret) ==
            IF b.fault # "none" THEN X(rg, cells, b.fault, NoPc)
            ELSE IF ret.fault # "none" THEN X(rg, cells, ret.fault, NoPc)
            ELSE Jump(b, PushBytes(lo(ret.v), hi(ret.v), rg, cells))
    IN  Push(ReadSingle(dst, rg, cells), AddU16(rg.pc, 2))

I_Callc(condition, dst, rg, cells) ==
    LET Taken(flag) ==
            IF flag.fault # "none" THEN X(rg, cells, flag.fault, NoPc)
            ELSE IF flag.v = 1 THEN I_Call(dst, rg, cells)
            ELSE X(rg, cells, "none", NoPc)
    IN  Taken(ReadSingle(condition, rg, cells))

\* Addr(r.sp - 1) is computed before bytes.hi(), which wants a Bytes::Two
I_Push(src, rg, cells) ==
    LET Store(v, a1) ==
            IF v.fault # "none" THEN X(rg, cells, v.fault, NoPc)
            ELSE IF a1.fault # "none" THEN X(rg, cells, a1.fault, NoPc)
            ELSE IF v.b.w # 2 THEN X(rg, cells, "Expected a 16-bit value", NoPc)
            ELSE PushBytes(lo(v.b.v), hi(v.b.v), rg, cells)
    IN  Store(Operand_read(src, rg, cells), SubU16(rg.sp, 1))

\* r.sp += 2, once the write has returned
Release(w, s2) ==
    IF w.fault # "none" THEN X(w.r, w.m, w.fault, NoPc)
    ELSE IF s2.fault # "none" THEN X(w.r, w.m, s2.fault, NoPc)
    ELSE X([w.r EXCEPT !.sp = s2.v], w.m, "none", NoPc)

\* Pop writes Bytes::from_bytes(hi, lo): the byte at SP + 1 as the low byte
I_Pop(dst, rg, cells) ==
    LET Store(w) == Release(w, AddU16(w.r.sp, 2))
        Load(a1) ==
            IF a1.fault # "none" THEN X(rg, cells, a1.fault, NoPc)
            ELSE Store(Operand_write(dst, rg, cells,
                                     from_bytes(get(cells, a1.v), get(cells, rg.sp))))
    IN  Load(AddU16(rg.sp, 1))

\* Rst pushes r.pc and stores the restart address into r.pc
I_Rst(address, rg, cells) ==
    LET Jump(pushed) ==
            IF pushed.fault # "none" THEN pushed
            ELSE X([pushed.r EXCEPT !.pc = address], pushed.m, "none", NoPc)
    IN  Jump(PushBytes(lo(rg.pc), hi(rg.pc), rg, cells))

I_Ldhl(op, rg, cells) ==
    LET Store(w) == X(w.r, cells, w.fault, NoPc)
        Offset(o) ==
            IF o.fault # "none" THEN X(rg, cells, o.fault, NoPc)
            ELSE Store(set_hl(rg, Two(Wrap(rg.sp + Signed8(o.v), 65536))))
    IN  Offset(ReadSingle(op, rg, cells))

\* an Invalid arm that would return like a Nop
I_Invalid_Returns(rg, cells) == X(rg, cells, "none", NoPc)

\* Invalid(msg) => panic!("Invalid instruction or not implemented: {}", msg)
I_Invalid(rg, cells) == X(rg, cells, "Invalid instruction or not implemented", NoPc)

\* if let Some(new_pc) = new_pc { r.pc = new_pc } else { r.pc += bytes as u16 }
UpdatePc(x, nbytes) ==
    LET p == AddU16(x.r.pc, nbytes)
    IN  IF x.fault # "none" THEN [r |-> x.r, m |-> x.m, fault |-> x.fault]
        ELSE IF x.new_pc.some
        THEN [r |-> [x.r EXCEPT !.pc = x.new_pc.v], m |-> x.m, fault |-> "none"]
        ELSE [r |-> [x.r EXCEPT !.pc = p.v], m |-> x.m, fault |-> p.fault]

\* the match of Instruction::execute
I_Match(ins, rg, cells) ==
    CASE ins.mn = "Nop" -> X(rg, cells, "none", NoPc)
      [] ins.mn = "Ld" -> I_Ld(ins.ops[1], ins.ops[2], rg, cells)
      [] ins.mn \in {"Inc", "Dec"} -> I_IncDec(ins.mn, ins.ops[1], rg, cells)
      [] ins.mn \in {"Add", "Adc", "Sub", "Sbc"} ->
            I_Arith(ins.mn, ins.ops[1], ins.ops[2], rg, cells)
      [] ins.mn \in {"Rlca", "Rrca", "Rla", "Rra"} -> I_Rotate(ins.mn, rg, cells)
      [] ins.mn = "Jr" -> I_Jr(ins.ops[1], rg, cells)
      [] ins.mn = "Jrc" -> I_Jrc(ins.ops[1], ins.ops[2], rg, cells)
      [] ins.mn = "Daa" -> I_Daa(rg, cells)
      [] ins.mn = "Cpl" -> I_Cpl(rg, cells)
      [] ins.mn = "Scf" -> I_Scf(rg, cells)
      [] ins.mn = "Ccf" -> I_Ccf(rg, cells)
      [] ins.mn \in {"And", "Xor", "Or"} ->
            I_Logic(ins.mn, ins.ops[1], ins.ops[2], rg, cells)
      [] ins.mn = "Cp" -> I_Cp(ins.ops[1], ins.ops[2], rg, cells)
      [] ins.mn = "Ret" -> I_Ret(rg, cells)
      [] ins.mn = "Retc" -> I_Retc(ins.ops[1], rg, cells)
      [] ins.mn \in {"Stop", "Halt", "Reti", "Ei", "Di"} -> I_Todo(rg, cells)
      [] ins.mn = "Jp" -> I_Jp(ins.ops[1], rg, cells)
      [] ins.mn = "Jpc" -> I_Jpc(ins.ops[1], ins.ops[2], rg, cells)
      [] ins.mn = "Call" -> I_Call(ins.ops[1], rg, cells)
      [] ins.mn = "Callc" -> I_Callc(ins.ops[1], ins.ops[2], rg, cells)
      [] ins.mn = "Push" -> I_Push(ins.ops[1], rg, cells)
      [] ins.mn = "Pop" -> I_Pop(ins.ops[1], rg, cells)
      [] ins.mn = "Rst" -> I_Rst(ins.arg, rg, cells)
      [] ins.mn = "Ldhl" -> I_Ldhl(ins.ops[1], rg, cells)
      [] ins.mn = "Invalid" -> I_Invalid(rg, cells)

\* Instruction::execute
Instruction_execute(ins, rg, cells) == UpdatePc(I_Match(ins, rg, cells), ins.bytes)

(***************************************************************************)
(* build_opcode_map (cpu/map.rs): the array literal handed to              *)
(* HashMap::from_iter, in source order.  The element for 0xE8 is todo!().  *)
(***************************************************************************)
TodoEntry ==
    [mn |-> "todo!()", ops |-> <<>>, arg |-> 0, label |-> "", bytes |-> 0, cycles |-> <<>>]

OpcodeLiteral ==
    <<
     <<0, I_new(Mn("Nop", <<>>), 1, 4)>>,
     <<1, I_new(Mn("Ld", <<imm("BC"), imm("Const16")>>), 3, 12)>>,
     <<2, I_new(Mn("Ld", <<ind("BC"), imm("A")>>), 1, 8)>>,
     <<3, I_new(Mn("Inc", <<imm("BC")>>), 1, 8)>>,
     <<4, I_new(Mn("Inc", <<imm("B")>>), 1, 4)>>,
     <<5, I_new(Mn("Dec", <<imm("B")>>), 1, 4)>>,
     <<6, I_new(Mn("Ld", <<imm("B"), imm("Const8")>>), 2, 8)>>,
     <<7, I_new(Mn("Rlca", <<>>), 1, 4)>>,
     <<8, I_new(Mn("Ld", <<ind("Const16"), imm("SP")>>), 3, 20)>>,
     <<9, I_new(Mn("Add", <<imm("HL"), imm("BC")>>), 1, 8)>>,
     <<10, I_new(Mn("Ld", <<imm("A"), ind("BC")>>), 1, 8)>>,
     <<11, I_new(Mn("Dec", <<imm("BC")>>), 1, 8)>>,
     <<12, I_new(Mn("Inc", <<imm("C")>>), 1, 4)>>,
     <<13, I_new(Mn("Dec", <<imm("C")>>), 1, 4)>>,
     <<14, I_new(Mn("Ld", <<imm("C"), imm("Const8")>>), 2, 8)>>,
     <<15, I_new(Mn("Rrca", <<>>), 1, 4)>>,
     <<16, I_new(Mn("Stop", <<imm("Const8")>>), 2, 4)>>,
     <<17, I_new(Mn("Ld", <<imm("DE"), imm("Const16")>>), 3, 12)>>,
     <<18, I_new(Mn("Ld", <<ind("DE"), imm("A")>>), 1, 8)>>,
     <<19, I_new(Mn("Inc", <<imm("DE")>>), 1, 8)>>,
     <<20, I_new(Mn("Inc", <<imm("D")>>), 1, 4)>>,
     <<21, I_new(Mn("Dec", <<imm("D")>>), 1, 4)>>,
     <<22, I_new(Mn("Ld", <<imm("D"), imm("Const8")>>), 2, 6)>>,
     <<23, I_new(Mn("Rla", <<>>), 1, 4)>>,
     <<24, I_new(Mn("Jr", <<imm("Const8")>>), 2, 12)>>,
     <<25, I_new(Mn("Add", <<imm("HL"), imm("DE")>>), 1, 8)>>,
     <<26, I_new(Mn("Ld", <<imm("A"), ind("DE")>>), 1, 8)>>,
     <<27, I_new(Mn("Dec", <<imm("DE")>>), 1, 8)>>,
     <<28, I_new(Mn("Inc", <<imm("E")>>), 1, 4)>>,
     <<29, I_new(Mn("Dec", <<imm("E")>>), 1, 4)>>,
     <<30, I_new(Mn("Ld", <<imm("E"), imm("Const8")>>), 2, 8)>>,
     <<31, I_new(Mn("Rra", <<>>), 1, 4)>>,
     <<32, I_new_ex(Mn("Jrc", <<imm("FlagNz"), imm("Const8")>>), 2, <<12, 8>>)>>,
     <<33, I_new(Mn("Ld", <<imm("HL"), imm("Const16")>>), 3, 12)>>,
     <<35, I_new(Mn("Inc", <<imm("HL")>>), 1, 8)>>,
     <<36, I_new(Mn("Inc", <<imm("H")>>), 1, 4)>>,
     <<37, I_new(Mn("Dec", <<imm("H")>>), 1, 4)>>,
     <<38, I_new(Mn("Ld", <<imm("H"), imm("Const8")>>), 2, 8)>>,
     <<39, I_new(Mn("Daa", <<>>), 1, 4)>>,
     <<40, I_new_ex(Mn("Jrc", <<imm("FlagZ"), imm("Const8")>>), 2, <<12, 8>>)>>,
     <<41, I_new(Mn("Add", <<imm("HL"), imm("HL")>>), 1, 8)>>,
     <<43, I_new(Mn("Dec", <<imm("HL")>>), 1, 8)>>,
     <<44, I_new(Mn("Inc", <<imm("L")>>), 1, 4)>>,
     <<45, I_new(Mn("Dec", <<imm("L")>>), 1, 4)>>,
     <<46, I_new(Mn("Ld", <<imm("L"), imm("Const8")>>), 2, 8)>>,
     <<47, I_new(Mn("Cpl", <<>>), 1, 4)>>,
     <<48, I_new_ex(Mn("Jrc", <<imm("FlagNc"), imm("Const8")>>), 2, <<12, 8>>)>>,
     <<49, I_new(Mn("Ld", <<imm("SP"), imm("Const16")>>), 3, 12)>>,
     <<51, I_new(Mn("Inc", <<imm("SP")>>), 1, 8)>>,
     <<52, I_new(Mn("Inc", <<ind("HL")>>), 1, 12)>>,
     <<53, I_new(Mn("Dec", <<ind("HL")>>), 1, 12)>>,
     <<54, I_new(Mn("Ld", <<ind("HL"), imm("Const8")>>), 2, 12)>>,
     <<55, I_new(Mn("Scf", <<>>), 1, 4)>>,
     <<56, I_new_ex(Mn("Jrc", <<imm("FlagC"), imm("Const8")>>), 2, <<12, 8>>)>>,
     <<57, I_new(Mn("Add", <<imm("HL"), imm("SP")>>), 1, 8)>>,
     <<59, I_new(Mn("Dec", <<imm("SP")>>), 1, 8)>>,
     <<60, I_new(Mn("Inc", <<imm("A")>>), 1, 4)>>,
     <<61, I_new(Mn("Dec", <<imm("A")>>), 1, 4)>>,
     <<62, I_new(Mn("Ld", <<imm("A"), imm("Const8")>>), 2, 8)>>,
     <<63, I_new(Mn("Ccf", <<>>), 1, 4)>>,
     <<64, I_new(Mn("Ld", <<imm("B"), imm("B")>>), 1, 4)>>,
     <<65, I_new(Mn("Ld", <<imm("B"), imm("C")>>), 1, 4)>>,
     <<66, I_new(Mn("Ld", <<imm("B"), imm("D")>>), 1, 4)>>,
     <<67, I_new(Mn("Ld", <<imm("B"), imm("E")>>), 1, 4)>>,
     <<68, I_new(Mn("Ld", <<imm("B"), imm("H")>>), 1, 4)>>,
     <<69, I_new(Mn("Ld", <<imm("B"), imm("L")>>), 1, 4)>>,
     <<70, I_new(Mn("Ld", <<imm("B"), ind("HL")>>), 1, 8)>>,
     <<71, I_new(Mn("Ld", <<imm("B"), imm("A")>>), 1, 4)>>,
     <<72, I_new(Mn("Ld", <<imm("C"), imm("B")>>), 1, 4)>>,
     <<73, I_new(Mn("Ld", <<imm("C"), imm("C")>>), 1, 4)>>,
     <<74, I_new(Mn("Ld", <<imm("C"), imm("D")>>), 1, 4)>>,
     <<75, I_new(Mn("Ld", <<imm("C"), imm("E")>>), 1, 4)>>,
     <<76, I_new(Mn("Ld", <<imm("C"), imm("H")>>), 1, 4)>>,
     <<77, I_new(Mn("Ld", <<imm("C"), imm("L")>>), 1, 4)>>,
     <<78, I_new(Mn("Ld", <<imm("C"), ind("HL")>>), 1, 8)>>,
     <<79, I_new(Mn("Ld", <<imm("C"), imm("A")>>), 1, 4)>>,
     <<80, I_new(Mn("Ld", <<imm("D"), imm("B")>>), 1, 4)>>,
     <<81, I_new(Mn("Ld", <<imm("D"), imm("C")>>), 1, 4)>>,
     <<82, I_new(Mn("Ld", <<imm("D"), imm("D")>>), 1, 4)>>,
     <<83, I_new(Mn("Ld", <<imm("D"), imm("E")>>), 1, 4)>>,
     <<84, I_new(Mn("Ld", <<imm("D"), imm("H")>>), 1, 4)>>,
     <<85, I_new(Mn("Ld", <<imm("D"), imm("L")>>), 1, 4)>>,
     <<86, I_new(Mn("Ld", <<imm("D"), ind("HL")>>), 1, 8)>>,
     <<87, I_new(Mn("Ld", <<imm("D"), imm("A")>>), 1, 4)>>,
     <<88, I_new(Mn("Ld", <<imm("E"), imm("B")>>), 1, 4)>>,
     <<89, I_new(Mn("Ld", <<imm("E"), imm("C")>>), 1, 4)>>,
     <<90, I_new(Mn("Ld", <<imm("E"), imm("D")>>), 1, 4)>>,
     <<91, I_new(Mn("Ld", <<imm("E"), imm("E")>>), 1, 4)>>,
     <<92, I_new(Mn("Ld", <<imm("E"), imm("H")>>), 1, 4)>>,
     <<93, I_new(Mn("Ld", <<imm("E"), imm("L")>>), 1, 4)>>,
     <<94, I_new(Mn("Ld", <<imm("E"), ind("HL")>>), 1, 8)>>,
     <<95, I_new(Mn("Ld", <<imm("E"), imm("A")>>), 1, 4)>>,
     <<96, I_new(Mn("Ld", <<imm("H"), imm("B")>>), 1, 4)>>,
     <<97, I_new(Mn("Ld", <<imm("H"), imm("C")>>), 1, 4)>>,
     <<98, I_new(Mn("Ld", <<imm("H"), imm("D")>>), 1, 4)>>,
     <<99, I_new(Mn("Ld", <<imm("H"), imm("E")>>), 1, 4)>>,
     <<100, I_new(Mn("Ld", <<imm("H"), imm("H")>>), 1, 4)>>,
     <<101, I_new(Mn("Ld", <<imm("H"), imm("L")>>), 1, 4)>>,
     <<102, I_new(Mn("Ld", <<imm("H"), ind("HL")>>), 1, 8)>>,
     <<103, I_new(Mn("Ld", <<imm("H"), imm("A")>>), 1, 4)>>,
     <<104, I_new(Mn("Ld", <<imm("L"), imm("B")>>), 1, 4)>>,
     <<105, I_new(Mn("Ld", <<imm("L"), imm("C")>>), 1, 4)>>,
     <<106, I_new(Mn("Ld", <<imm("L"), imm("D")>>), 1, 4)>>,
     <<107, I_new(Mn("Ld", <<imm("L"), imm("E")>>), 1, 4)>>,
     <<108, I_new(Mn("Ld", <<imm("L"), imm("H")>>), 1, 4)>>,
     <<109, I_new(Mn("Ld", <<imm("L"), imm("L")>>), 1, 4)>>,
     <<110, I_new(Mn("Ld", <<imm("L"), ind("HL")>>), 1, 8)>>,
     <<111, I_new(Mn("Ld", <<imm("L"), imm("A")>>), 1, 4)>>,
     <<112, I_new(Mn("Ld", <<ind("HL"), imm("B")>>), 1, 8)>>,
     <<113, I_new(Mn("Ld", <<ind("HL"), imm("C")>>), 1, 8)>>,
     <<114, I_new(Mn("Ld", <<ind("HL"), imm("D")>>), 1, 8)>>,
     <<115, I_new(Mn("Ld", <<ind("HL"), imm("E")>>), 1, 8)>>,
     <<116, I_new(Mn("Ld", <<ind("HL"), imm("H")>>), 1, 8)>>,
     <<117, I_new(Mn("Ld", <<ind("HL"), imm("L")>>), 1, 8)>>,
     <<118, I_new(Mn("Halt", <<>>), 1, 4)>>,
     <<119, I_new(Mn("Ld", <<ind("HL"), imm("A")>>), 1, 8)>>,
     <<120, I_new(Mn("Ld", <<imm("A"), imm("B")>>), 1, 4)>>,
     <<121, I_new(Mn("Ld", <<imm("A"), imm("C")>>), 1, 4)>>,
     <<122, I_new(Mn("Ld", <<imm("A"), imm("D")>>), 1, 4)>>,
     <<123, I_new(Mn("Ld", <<imm("A"), imm("E")>>), 1, 4)>>,
     <<124, I_new(Mn("Ld", <<imm("A"), imm("H")>>), 1, 4)>>,
     <<125, I_new(Mn("Ld", <<imm("A"), imm("L")>>), 1, 4)>>,
     <<126, I_new(Mn("Ld", <<imm("A"), ind("HL")>>), 1, 8)>>,
     <<127, I_new(Mn("Ld", <<imm("A"), imm("A")>>), 1, 4)>>,
     <<128, I_new(Mn("Add", <<imm("A"), imm("B")>>), 1, 4)>>,
     <<129, I_new(Mn("Add", <<imm("A"), imm("C")>>), 1, 4)>>,
     <<130, I_new(Mn("Add", <<imm("A"), imm("D")>>), 1, 4)>>,
     <<131, I_new(Mn("Add", <<imm("A"), imm("E")>>), 1, 4)>>,
     <<132, I_new(Mn("Add", <<imm("A"), imm("H")>>), 1, 4)>>,
     <<133, I_new(Mn("Add", <<imm("A"), imm("L")>>), 1, 4)>>,
     <<134, I_new(Mn("Add", <<imm("A"), ind("HL")>>), 1, 8)>>,
     <<135, I_new(Mn("Add", <<imm("A"), imm("A")>>), 1, 4)>>,
     <<136, I_new(Mn("Adc", <<imm("A"), imm("B")>>), 1, 4)>>,
     <<137, I_new(Mn("Adc", <<imm("A"), imm("C")>>), 1, 4)>>,
     <<138, I_new(Mn("Adc", <<imm("A"), imm("D")>>), 1, 4)>>,
     <<139, I_new(Mn("Adc", <<imm("A"), imm("E")>>), 1, 4)>>,
     <<140, I_new(Mn("Adc", <<imm("A"), imm("H")>>), 1, 4)>>,
     <<141, I_new(Mn("Adc", <<imm("A"), imm("L")>>), 1, 4)>>,
     <<142, I_new(Mn("Adc", <<imm("A"), ind("HL")>>), 1, 8)>>,
     <<143, I_new(Mn("Adc", <<imm("A"), imm("A")>>), 1, 4)>>,
     <<144, I_new(Mn("Sub", <<imm("A"), imm("B")>>), 1, 4)>>,
     <<145, I_new(Mn("Sub", <<imm("A"), imm("C")>>), 1, 4)>>,
     <<146, I_new(Mn("Sub", <<imm("A"), imm("D")>>), 1, 4)>>,
     <<147, I_new(Mn("Sub", <<imm("A"), imm("E")>>), 1, 4)>>,
     <<148, I_new(Mn("Sub", <<imm("A"), imm("H")>>), 1, 4)>>,
     <<149, I_new(Mn("Sub", <<imm("A"), imm("L")>>), 1, 4)>>,
     <<150, I_new(Mn("Sub", <<imm("A"), ind("HL")>>), 1, 8)>>,
     <<151, I_new(Mn("Sub", <<imm("A"), imm("A")>>), 1, 4)>>,
     <<152, I_new(Mn("Sbc", <<imm("A"), imm("B")>>), 1, 4)>>,
     <<153, I_new(Mn("Sbc", <<imm("A"), imm("C")>>), 1, 4)>>,
     <<154, I_new(Mn("Sbc", <<imm("A"), imm("D")>>), 1, 4)>>,
     <<155, I_new(Mn("Sbc", <<imm("A"), imm("E")>>), 1, 4)>>,
     <<156, I_new(Mn("Sbc", <<imm("A"), imm("H")>>), 1, 4)>>,
     <<157, I_new(Mn("Sbc", <<imm("A"), imm("L")>>), 1, 4)>>,
     <<158, I_new(Mn("Sbc", <<imm("A"), ind("HL")>>), 1, 8)>>,
     <<159, I_new(Mn("Sbc", <<imm("A"), imm("A")>>), 1, 4)>>,
     <<160, I_new(Mn("And", <<imm("A"), imm("B")>>), 1, 4)>>,
     <<161, I_new(Mn("And", <<imm("A"), imm("C")>>), 1, 4)>>,
     <<162, I_new(Mn("And", <<imm("A"), imm("D")>>), 1, 4)>>,
     <<163, I_new(Mn("And", <<imm("A"), imm("E")>>), 1, 4)>>,
     <<164, I_new(Mn("And", <<imm("A"), imm("H")>>), 1, 4)>>,
     <<165, I_new(Mn("And", <<imm("A"), imm("L")>>), 1, 4)>>,
     <<166, I_new(Mn("And", <<imm("A"), ind("HL")>>), 1, 8)>>,
     <<167, I_new(Mn("And", <<imm("A"), imm("A")>>), 1, 4)>>,
     <<168, I_new(Mn("Xor", <<imm("A"), imm("B")>>), 1, 4)>>,
     <<169, I_new(Mn("Xor", <<imm("A"), imm("C")>>), 1, 4)>>,
     <<170, I_new(Mn("Xor", <<imm("A"), imm("D")>>), 1, 4)>>,
     <<171, I_new(Mn("Xor", <<imm("A"), imm("E")>>), 1, 4)>>,
     <<172, I_new(Mn("Xor", <<imm("A"), imm("H")>>), 1, 4)>>,
     <<173, I_new(Mn("Xor", <<imm("A"), imm("L")>>), 1, 4)>>,
     <<174, I_new(Mn("Xor", <<imm("A"), ind("HL")>>), 1, 8)>>,
     <<175, I_new(Mn("Xor", <<imm("A"), imm("A")>>), 1, 4)>>,
     <<176, I_new(Mn("Or", <<imm("A"), imm("B")>>), 1, 4)>>,
     <<177, I_new(Mn("Or", <<imm("A"), imm("C")>>), 1, 4)>>,
     <<178, I_new(Mn("Or", <<imm("A"), imm("D")>>), 1, 4)>>,
     <<179, I_new(Mn("Or", <<imm("A"), imm("E")>>), 1, 4)>>,
     <<180, I_new(Mn("Or", <<imm("A"), imm("H")>>), 1, 4)>>,
     <<181, I_new(Mn("Or", <<imm("A"), imm("L")>>), 1, 4)>>,
     <<182, I_new(Mn("Or", <<imm("A"), ind("HL")>>), 1, 8)>>,
     <<183, I_new(Mn("Or", <<imm("A"), imm("A")>>), 1, 4)>>,
     <<184, I_new(Mn("Cp", <<imm("A"), imm("B")>>), 1, 4)>>,
     <<185, I_new(Mn("Cp", <<imm("A"), imm("C")>>), 1, 4)>>,
     <<186, I_new(Mn("Cp", <<imm("A"), imm("D")>>), 1, 4)>>,
     <<187, I_new(Mn("Cp", <<imm("A"), imm("E")>>), 1, 4)>>,
     <<188, I_new(Mn("Cp", <<imm("A"), imm("H")>>), 1, 4)>>,
     <<189, I_new(Mn("Cp", <<imm("A"), imm("L")>>), 1, 4)>>,
     <<190, I_new(Mn("Cp", <<imm("A"), imm("L")>>), 1, 8)>>,
     <<191, I_new(Mn("Cp", <<imm("A"), imm("A")>>), 1, 4)>>,
     <<192, I_new_ex(Mn("Retc", <<imm("FlagNz")>>), 1, <<20, 8>>)>>,
     <<193, I_new(Mn("Pop", <<imm("BC")>>), 1, 12)>>,
     <<194, I_new_ex(Mn("Jpc", <<imm("FlagNz"), imm("Const16")>>), 3, <<16, 12>>)>>,
     <<195, I_new(Mn("Jp", <<imm("Const16")>>), 3, 16)>>,
     <<196, I_new_ex(Mn("Callc", <<imm("FlagNz"), imm("Const16")>>), 3, <<24, 12>>)>>,
     <<197, I_new(Mn("Push", <<imm("BC")>>), 1, 16)>>,
     <<198, I_new(Mn("Ld", <<imm("A"), imm("Const8")>>), 2, 8)>>,
     <<199, I_new(MnRst(0), 1, 32)>>,
     <<200, I_new_ex(Mn("Retc", <<imm("FlagZ")>>), 1, <<20, 8>>)>>,
     <<201, I_new(Mn("Ret", <<>>), 1, 16)>>,
     <<202, I_new_ex(Mn("Jpc", <<imm("FlagZ"), imm("Const16")>>), 3, <<16, 12>>)>>,
     <<203, I_new(MnInvalid("0xCB"), 1, 4)>>,
     <<204, I_new_ex(Mn("Callc", <<imm("FlagZ"), imm("Const16")>>), 3, <<24, 12>>)>>,
     <<205, I_new(Mn("Call", <<imm("Const16")>>), 3, 24)>>,
     <<206, I_new(Mn("Ld", <<imm("A"), imm("Const8")>>), 2, 8)>>,
     <<207, I_new(MnRst(8), 1, 32)>>,
     <<208, I_new_ex(Mn("Retc", <<imm("FlagNc")>>), 1, <<20, 8>>)>>,
     <<209, I_new(Mn("Pop", <<imm("DE")>>), 1, 12)>>,
     <<210, I_new_ex(Mn("Jpc", <<imm("FlagNc"), imm("Const16")>>), 3, <<16, 12>>)>>,
     <<211, I_new(MnInvalid("0xD3"), 1, 4)>>,
     <<212, I_new_ex(Mn("Callc", <<imm("FlagNc"), imm("Const16")>>), 3, <<24, 12>>)>>,
     <<213, I_new(Mn("Push", <<imm("DE")>>), 1, 16)>>,
     <<214, I_new(Mn("Ld", <<imm("A"), imm("Const8")>>), 2, 8)>>,
     <<215, I_new(MnRst(16), 1, 32)>>,
     <<216, I_new_ex(Mn("Retc", <<imm("FlagC")>>), 1, <<20, 8>>)>>,
     <<217, I_new(Mn("Reti", <<>>), 1, 16)>>,
     <<218, I_new_ex(Mn("Jpc", <<imm("FlagC"), imm("Const16")>>), 3, <<16, 12>>)>>,
     <<219, I_new(MnInvalid("0xDB"), 1, 4)>>,
     <<220, I_new_ex(Mn("Callc", <<imm("FlagC"), imm("Const16")>>), 3, <<24, 12>>)>>,
     <<221, I_new(MnInvalid("0xDD"), 1, 4)>>,
     <<222, I_new(Mn("Ld", <<imm("A"), imm("Const8")>>), 2, 8)>>,
     <<223, I_new(MnRst(24), 1, 32)>>,
     <<224, I_new(Mn("Ld", <<high("Const8"), imm("A")>>), 2, 12)>>,
     <<225, I_new(Mn("Pop", <<imm("HL")>>), 1, 12)>>,
     <<226, I_new(Mn("Ld", <<high("C"), imm("A")>>), 1, 8)>>,
     <<227, I_new(MnInvalid("0xE3"), 1, 4)>>,
     <<228, I_new(MnInvalid("0xE4"), 1, 4)>>,
     <<229, I_new(Mn("Push", <<imm("HL")>>), 1, 16)>>,
     <<230, I_new(Mn("Ld", <<imm("A"), imm("Const8")>>), 2, 8)>>,
     <<231, I_new(MnRst(32), 1, 32)>>,
     <<232, TodoEntry>>,
     <<233, I_new(Mn("Jp", <<imm("HL")>>), 1, 4)>>,
     <<234, I_new(Mn("Ld", <<ind("Const16"), imm("A")>>), 3, 16)>>,
     <<235, I_new(MnInvalid("0xEB"), 1, 4)>>,
     <<236, I_new(MnInvalid("0xEC"), 1, 4)>>,
     <<237, I_new(MnInvalid("0xED"), 1, 4)>>,
     <<238, I_new(Mn("Ld", <<imm("A"), imm("Const8")>>), 2, 8)>>,
     <<239, I_new(MnRst(40), 1, 32)>>,
     <<240, I_new(Mn("Ld", <<imm("A"), high("Const8")>>), 2, 12)>>,
     <<241, I_new(Mn("Pop", <<imm("AF")>>), 1, 12)>>,
     <<242, I_new(Mn("Ld", <<imm("A"), high("C")>>), 1, 8)>>,
     <<243, I_new(Mn("Di", <<>>), 1, 4)>>,
     <<244, I_new(MnInvalid("0xF4"), 1, 4)>>,
     <<245, I_new(Mn("Push", <<imm("AF")>>), 1, 16)>>,
     <<246, I_new(Mn("Ld", <<imm("A"), imm("Const8")>>), 2, 8)>>,
     <<247, I_new(MnRst(48), 1, 32)>>,
     <<248, I_new(Mn("Ldhl", <<imm("Const8")>>), 2, 12)>>,
     <<249, I_new(Mn("Ld", <<imm("SP"), imm("HL")>>), 1, 8)>>,
     <<250, I_new(Mn("Ld", <<imm("A"), ind("Const16")>>), 3, 16)>>,
     <<251, I_new(Mn("Ei", <<>>), 1, 4)>>,
     <<252, I_new(MnInvalid("0xFC"), 1, 4)>>,
     <<253, I_new(MnInvalid("0xFD"), 1, 4)>>,
     <<254, I_new(Mn("Cp", <<imm("A"), imm("Const8")>>), 2, 8)>>,
     <<255, I_new(MnRst(56), 1, 32)>>
    >>

\* the opcodes the literal has an element for
LiteralKeys == {OpcodeLiteral[i][1] : i \in 1..Len(OpcodeLiteral)}

\* the opcodes whose element is an Instruction
InstructionKeys ==
    {OpcodeLiteral[i][1] : i \in {j \in 1..Len(OpcodeLiteral) : OpcodeLiteral[j][2] # TodoEntry}}

\* the Instruction the literal gives for an opcode
OpcodeMap ==
    [k \in LiteralKeys |->
        OpcodeLiteral[CHOOSE i \in 1..Len(OpcodeLiteral) : OpcodeLiteral[i][1] = k][2]]

(***************************************************************************)
(* Cpu::execute (cpu/cpu.rs).  It calls helpers the source tree does not   *)
(* hold (Ram::read_word, Operand::target_size, alu::add8, ...); those are  *)
(* written after sections 4.1 to 4.4 of the specification.                 *)
(***************************************************************************)
\* Ram::read_byte, write_byte, read_word, write_word: little-endian, the
\* address of the high byte taken modulo the size of the store
read_byte(cells, address) == get(cells, address)
write_byte(cells, address, value) == set(cells, address, value)
read_word(cells, address) ==
    get(cells, (address + 1) % RAM_SIZE) * 256 + get(cells, address)
write_word(cells, address, value) ==
    set(set(cells, address, lo(value)), (address + 1) % RAM_SIZE, hi(value))

\* Operand::target_size: 2 for a register pair, SP or a 16-bit constant taken
\* directly, 1 for everything else
target_size(op) ==
    IF op.mode = "Immediate" /\ op.loc \in {"AF", "BC", "DE", "HL", "SP", "Const16"}
    THEN 2 ELSE 1

\* Operand::read_byte
Operand_read_byte(op, rg, cells) == ReadSingle(op, rg, cells)

\* Operand::read_word: a 16-bit Location, or the word at the operand's address
Operand_read_word(op, rg, cells) ==
    LET Word16(got) ==
            IF got.fault # "none" THEN GotPanic(got.fault)
            ELSE IF got.b.w # 2 THEN GotPanic("expected word")
            ELSE Got(got.b.v)
        At(at) ==
            IF at.fault # "none" THEN GotPanic(at.fault)
            ELSE Got(read_word(cells, at.a))
    IN  IF op.mode = "Immediate" THEN Word16(Location_read(op.loc, rg, cells))
        ELSE At(OperandAddr(op, rg, cells))

\* the register file's direct set of an 8-bit register
Registers_set8(loc, rg, value) ==
    CASE loc = "A" -> [r |-> [rg EXCEPT !.a = value], fault |-> "none"]
      [] loc = "B" -> [r |-> [rg EXCEPT !.b = value], fault |-> "none"]
      [] loc = "C" -> [r |-> [rg EXCEPT !.c = value], fault |-> "none"]
      [] loc = "D" -> [r |-> [rg EXCEPT !.d = value], fault |-> "none"]
      [] loc = "E" -> [r |-> [rg EXCEPT !.e = value], fault |-> "none"]
      [] loc = "H" -> [r |-> [rg EXCEPT !.h = value], fault |-> "none"]
      [] loc = "L" -> [r |-> [rg EXCEPT !.l = value], fault |-> "none"]
      [] OTHER -> [r |-> rg, fault |-> "write to a read-only Location"]

\* the register file's pair_set, and SP
Registers_set16(loc, rg, value) ==
    CASE loc = "AF" -> [r |-> [rg EXCEPT !.a = hi(value), !.f = lo(value)], fault |-> "none"]
      [] loc = "BC" -> [r |-> [rg EXCEPT !.b = hi(value), !.c = lo(value)], fault |-> "none"]
      [] loc = "DE" -> [r |-> [rg EXCEPT !.d = hi(value), !.e = lo(value)], fault |-> "none"]
      [] loc = "HL" -> [r |-> [rg EXCEPT !.h = hi(value), !.l = lo(value)], fault |-> "none"]
      [] loc = "SP" -> [r |-> [rg EXCEPT !.sp = value], fault |-> "none"]
      [] OTHER -> [r |-> rg, fault |-> "write to a read-only Location"]

\* Operand::write_byte
Operand_write_byte(op, rg, cells, value) ==
    LET At(at) ==
            IF at.fault # "none" THEN WritePanic(rg, cells, at.fault)
            ELSE Wrote(rg, write_byte(cells, at.a, value))
    IN  IF op.mode = "Immediate"
        THEN WroteRegisters(Registers_set8(op.loc, rg, value), cells)
        ELSE At(OperandAddr(op, rg, cells))

\* Operand::write_word
Operand_write_word(op, rg, cells, value) ==
    LET At(at) ==
            IF at.fault # "none" THEN WritePanic(rg, cells, at.fault)
            ELSE Wrote(rg, write_word(cells, at.a, value))
    IN  IF op.mode = "Immediate"
        THEN WroteRegisters(Registers_set16(op.loc, rg, value), cells)
        ELSE At(OperandAddr(op, rg, cells))

\* alu::inc8, dec8, add8, adc8: the 8-bit arms of alu::inc, dec, add, adc
inc8(value, flags) == inc(One(value), flags)
dec8(value, flags) == dec(One(value), flags)
add8(value1, value2, flags) == add(One(value1), One(value2), flags)
adc8(value1, value2, flags) == adc(One(value1), One(value2), flags)

\* alu::sub8, sbc8: H is the borrow into bit 4, C the borrow out of bit 7
sub8(value1, value2, flags) ==
    LET result == Wrap(value1 - value2, 256)
        f1 == set_zero(flags, result = 0)
        f2 == set_subtraction(f1, TRUE)
        f3 == set_half_carry(f2, (value1 % 16) < (value2 % 16))
    IN  AluOk(One(result), set_carry(f3, value1 < value2))

sbc8(value1, value2, flags) ==
    LET c == BoolToInt(carry(flags))
        result == Wrap(value1 - value2 - c, 256)
        f1 == set_zero(flags, result = 0)
        f2 == set_subtraction(f1, TRUE)
        f3 == set_half_carry(f2, (value1 % 16) < (value2 % 16) + c)
    IN  AluOk(One(result), set_carry(f3, value1 < value2 + c))

\* alu::inc16, dec16: no flag is touched
inc16(value) == (value + 1) % 65536
dec16(value) == Wrap(value - 1, 65536)

\* alu::add16, adc16: N cleared, H out of bit 11, C out of bit 15, Z kept
add16(value1, value2, flags) == add(Two(value1), Two(value2), flags)

adc16(value1, value2, flags) ==
    LET c == BoolToInt(carry(flags))
        f1 == set_subtraction(flags, FALSE)
        f2 == set_half_carry(f1, (value1 % 4096) + (value2 % 4096) + c > 4095)
    IN  AluOk(Two((value1 + value2 + c) % 65536), set_carry(f2, value1 + value2 + c > 65535))

\* alu::sub16, sbc16: N set, H the borrow into bit 12, C the borrow out of bit 15
sub16(value1, value2, flags) ==
    LET f1 == set_subtraction(flags, TRUE)
        f2 == set_half_carry(f1, (value1 % 4096) < (value2 % 4096))
    IN  AluOk(Two(Wrap(value1 - value2, 65536)), set_carry(f2, value1 < value2))

sbc16(value1, value2, flags) ==
    LET c == BoolToInt(carry(flags))
        f1 == set_subtraction(flags, TRUE)
        f2 == set_half_carry(f1, (value1 % 4096) < (value2 % 4096) + c)
    IN  AluOk(Two(Wrap(value1 - value2 - c, 65536)), set_carry(f2, value1 < value2 + c))

\* the 8-bit and the 16-bit helper of Add, Adc, Sub, Sbc by mnemonic
Alu8(name, value1, value2, flags) ==
    CASE name = "Add" -> add8(value1, value2, flags)
      [] name = "Adc" -> adc8(value1, value2, flags)
      [] name = "Sub" -> sub8(value1, value2, flags)
      [] name = "Sbc" -> sbc8(value1, value2, flags)

Alu16(name, value1, value2, flags) ==
    CASE name = "Add" -> add16(value1, value2, flags)
      [] name = "Adc" -> adc16(value1, value2, flags)
      [] name = "Sub" -> sub16(value1, value2, flags)
      [] name = "Sbc" -> sbc16(value1, value2, flags)

Cpu_Ld(dst, src, rg, cells) ==
    LET StoreByte(byte) ==
            IF byte.fault # "none" THEN X(rg, cells, byte.fault, NoPc)
            ELSE XW(Operand_write_byte(dst, rg, cells, byte.v))
        StoreWord(word) ==
            IF word.fault # "none" THEN X(rg, cells, word.fault, NoPc)
            ELSE XW(Operand_write_word(dst, rg, cells, word.v))
    IN  IF target_size(dst) = 1 THEN StoreByte(Operand_read_byte(src, rg, cells))
        ELSE StoreWord(Operand_read_word(src, rg, cells))

Cpu_IncDec(name, dst, rg, cells) ==
    LET StoreByte(a) ==
            XW(Operand_write_byte(dst, [rg EXCEPT !.f = a.f], cells, a.res.v))
        ChangeByte(byte) ==
            IF byte.fault # "none" THEN X(rg, cells, byte.fault, NoPc)
            ELSE StoreByte(IF name = "Inc" THEN inc8(byte.v, rg.f) ELSE dec8(byte.v, rg.f))
        ChangeWord(word) ==
            IF word.fault # "none" THEN X(rg, cells, word.fault, NoPc)
            ELSE XW(Operand_write_word(dst, rg, cells,
                        IF name = "Inc" THEN inc16(word.v) ELSE dec16(word.v)))
    IN  IF target_size(dst) = 1 THEN ChangeByte(Operand_read_byte(dst, rg, cells))
        ELSE ChangeWord(Operand_read_word(dst, rg, cells))

Cpu_Arith(name, dst, src, rg, cells) ==
    LET StoreByte(a) ==
            XW(Operand_write_byte(dst, [rg EXCEPT !.f = a.f], cells, a.res.v))
        StoreWord(a) ==
            XW(Operand_write_word(dst, [rg EXCEPT !.f = a.f], cells, a.res.v))
        Compute8(d, s) ==
            IF d.fault # "none" THEN X(rg, cells, d.fault, NoPc)
            ELSE IF s.fault # "none" THEN X(rg, cells, s.fault, NoPc)
            ELSE StoreByte(Alu8(name, d.v, s.v, rg.f))
        Compute16(d, s) ==
            IF d.fault # "none" THEN X(rg, cells, d.fault, NoPc)
            ELSE IF s.fault # "none" THEN X(rg, cells, s.fault, NoPc)
            ELSE StoreWord(Alu16(name, d.v, s.v, rg.f))
    IN  IF target_size(dst) = 1
        THEN Compute8(Operand_read_byte(dst, rg, cells), Operand_read_byte(src, rg, cells))
        ELSE Compute16(Operand_read_word(dst, rg, cells), Operand_read_word(src, rg, cells))

Cpu_Logic(name, dst, src, rg, cells) ==
    LET Store(a) == XW(Operand_write_byte(dst, [rg EXCEPT !.f = a.f], cells, a.res))
        Compute(d, s) ==
            IF d.fault # "none" THEN X(rg, cells, d.fault, NoPc)
            ELSE IF s.fault # "none" THEN X(rg, cells, s.fault, NoPc)
            ELSE Store(AluLogic(name, d.v, s.v, rg.f))
    IN  Compute(Operand_read_byte(dst, rg, cells), Operand_read_byte(src, rg, cells))

\* here the offset is read only once the flag has tested as 1
Cpu_Jrc(cc, offset, rg, cells) ==
    LET Jump(flag) ==
            IF flag.fault # "none" THEN X(rg, cells, flag.fault, NoPc)
            ELSE IF flag.v = 1 THEN I_Jr(offset, rg, cells)
            ELSE X(rg, cells, "none", NoPc)
    IN  Jump(Operand_read_byte(cc, rg, cells))

\* new_pc = Some(m.read_word(Addr(r.sp))); r.sp += 2
Cpu_Ret(rg, cells) ==
    LET s2 == AddU16(rg.sp, 2)
    IN  IF s2.fault # "none" THEN X(rg, cells, s2.fault, NoPc)
        ELSE X([rg EXCEPT !.sp = s2.v], cells, "none", SomePc(read_word(cells, rg.sp)))

Cpu_Retc(cc, rg, cells) ==
    LET Return(flag) ==
            IF flag.fault # "none" THEN X(rg, cells, flag.fault, NoPc)
            ELSE IF flag.v = 1 THEN Cpu_Ret(rg, cells)
            ELSE X(rg, cells, "none", NoPc)
    IN  Return(Operand_read_byte(cc, rg, cells))

\* debug_assert!(dst.target_size() == 2)
TargetSizeAsserted(op) == build = "debug" /\ target_size(op) # 2

Cpu_Jp(dst, rg, cells) ==
    LET Jump(target) == X(rg, cells, target.fault, SomePc(target.v))
    IN  IF TargetSizeAsserted(dst)
        THEN X(rg, cells, "assertion failed: dst.target_size() == 2", NoPc)
        ELSE Jump(Operand_read_word(dst, rg, cells))

Cpu_Jpc(cc, dst, rg, cells) ==
    LET Jump(flag) ==
            IF flag.fault # "none" THEN X(rg, cells, flag.fault, NoPc)
            ELSE IF flag.v = 1 THEN Cpu_Jp(dst, rg, cells)
            ELSE X(rg, cells, "none", NoPc)
    IN  IF TargetSizeAsserted(dst)
        THEN X(rg, cells, "assertion failed: dst.target_size() == 2", NoPc)
        ELSE Jump(Operand_read_byte(cc, rg, cells))

\* ret = r.pc + 2; m.write_word(Addr(r.sp - 2), ret); r.sp -= 2; the target is
\* read last, from the memory the push has written
Cpu_Call(dst, rg, cells) ==
    LET Jump(r1, m1, target) == X(r1, m1, target.fault, SomePc(target.v))
        Pushed(r1, m1) == Jump(r1, m1, Operand_read_word(dst, r1, m1))
        Push(ret, a2) ==
            IF ret.fault # "none" THEN X(rg, cells, ret.fault, NoPc)
            ELSE IF a2.fault # "none" THEN X(rg, cells, a2.fault, NoPc)
            ELSE Pushed([rg EXCEPT !.sp = a2.v], write_word(cells, a2.v, ret.v))
    IN  IF TargetSizeAsserted(dst)
        THEN X(rg, cells, "assertion failed: dst.target_size() == 2", NoPc)
        ELSE Push(AddU16(rg.pc, 2), SubU16(rg.sp, 2))

Cpu_Callc(condition, dst, rg, cells) ==
    LET Taken(flag) ==
            IF flag.fault # "none" THEN X(rg, cells, flag.fault, NoPc)
            ELSE IF flag.v = 1 THEN Cpu_Call(dst, rg, cells)
            ELSE X(rg, cells, "none", NoPc)
    IN  IF TargetSizeAsserted(dst)
        THEN X(rg, cells, "assertion failed: dst.target_size() == 2", NoPc)
        ELSE Taken(Operand_read_byte(condition, rg, cells))

\* m.write_word(Addr(r.sp - 2), src.read_word(r, m)); r.sp -= 2
Cpu_Push(src, rg, cells) ==
    LET Store(a2, word) ==
            IF a2.fault # "none" THEN X(rg, cells, a2.fault, NoPc)
            ELSE IF word.fault # "none" THEN X(rg, cells, word.fault, NoPc)
            ELSE X([rg EXCEPT !.sp = a2.v], write_word(cells, a2.v, word.v), "none", NoPc)
    IN  IF TargetSizeAsserted(src)
        THEN X(rg, cells, "assertion failed: src.target_size() == 2", NoPc)
        ELSE Store(SubU16(rg.sp, 2), Operand_read_word(src, rg, cells))

\* dst.write_word(r, m, m.read_word(Addr(r.sp))); r.sp += 2
Cpu_Pop(dst, rg, cells) ==
    LET Store(w) == Release(w, AddU16(w.r.sp, 2))
    IN  Store(Operand_write_word(dst, rg, cells, read_word(cells, rg.sp)))

Cpu_Rst(address, rg, cells) ==
    LET a1 == SubU16(rg.sp, 1)
        m1 == write_byte(cells, a1.v, hi(rg.pc))
        a2 == SubU16(rg.sp, 2)
        m2 == write_byte(m1, a2.v, lo(rg.pc))
    IN  IF a1.fault # "none" THEN X(rg, cells, a1.fault, NoPc)
        ELSE IF a2.fault # "none" THEN X(rg, m1, a2.fault, NoPc)
        ELSE X([rg EXCEPT !.sp = a2.v], m2, "none", SomePc(address))

Cpu_Ldhl(op, rg, cells) ==
    LET Store(w) == X(w.r, cells, w.fault, NoPc)
        Offset(o) ==
            IF o.fault # "none" THEN X(rg, cells, o.fault, NoPc)
            ELSE Store(Registers_set16("HL", rg, Wrap(rg.sp + Signed8(o.v), 65536)))
    IN  Offset(Operand_read_byte(op, rg, cells))

\* the match of Cpu::execute; the arms that read as in Instruction::execute
\* (rotates, Jr, Daa, Cpl, Scf, Ccf, Cp, todo!(), Invalid) share its operators
Cpu_Match(ins, rg, cells) ==
    CASE ins.mn = "Nop" -> X(rg, cells, "none", NoPc)
      [] ins.mn = "Ld" -> Cpu_Ld(ins.ops[1], ins.ops[2], rg, cells)
      [] ins.mn \in {"Inc", "Dec"} -> Cpu_IncDec(ins.mn, ins.ops[1], rg, cells)
      [] ins.mn \in {"Add", "Adc", "Sub", "Sbc"} ->
            Cpu_Arith(ins.mn, ins.ops[1], ins.ops[2], rg, cells)
      [] ins.mn \in {"Rlca", "Rrca", "Rla", "Rra"} -> I_Rotate(ins.mn, rg, cells)
      [] ins.mn = "Jr" -> I_Jr(ins.ops[1], rg, cells)
      [] ins.mn = "Jrc" -> Cpu_Jrc(ins.ops[1], ins.ops[2], rg, cells)
      [] ins.mn = "Daa" -> I_Daa(rg, cells)
      [] ins.mn = "Cpl" -> I_Cpl(rg, cells)
      [] ins.mn = "Scf" -> I_Scf(rg, cells)
      [] ins.mn = "Ccf" -> I_Ccf(rg, cells)
      [] ins.mn \in {"And", "Xor", "Or"} ->
            Cpu_Logic(ins.mn, ins.ops[1], ins.ops[2], rg, cells)
      [] ins.mn = "Cp" -> I_Cp(ins.ops[1], ins.ops[2], rg, cells)
      [] ins.mn = "Ret" -> Cpu_Ret(rg, cells)
      [] ins.mn = "Retc" -> Cpu_Retc(ins.ops[1], rg, cells)
      [] ins.mn \in {"Stop", "Halt", "Reti", "Ei", "Di"} -> I_Todo(rg, cells)
      [] ins.mn = "Jp" -> Cpu_Jp(ins.ops[1], rg, cells)
      [] ins.mn = "Jpc" -> Cpu_Jpc(ins.ops[1], ins.ops[2], rg, cells)
      [] ins.mn = "Call" -> Cpu_Call(ins.ops[1], rg, cells)
      [] ins.mn = "Callc" -> Cpu_Callc(ins.ops[1], ins.ops[2], rg, cells)
      [] ins.mn = "Push" -> Cpu_Push(ins.ops[1], rg, cells)
      [] ins.mn = "Pop" -> Cpu_Pop(ins.ops[1], rg, cells)
      [] ins.mn = "Rst" -> Cpu_Rst(ins.arg, rg, cells)
      [] ins.mn = "Ldhl" -> Cpu_Ldhl(ins.ops[1], rg, cells)
      [] ins.mn = "Invalid" -> I_Invalid(rg, cells)

\* Cpu::execute
Cpu_execute(ins, rg, cells) == UpdatePc(Cpu_Match(ins, rg, cells), ins.bytes)

(***************************************************************************)
(* The states an instruction is executed from: a build profile, a register *)
(* file and a memory image holding operand bytes after PC and two bytes at *)
(* the top of the stack.                                                   *)
(***************************************************************************)
PcSamples == {256, 65534, 65535}
SpSamples == {0, 1, 53248, 65534}
FlagSamples == {0, 16, 128, 240}
OperandSamples == {<<5, 0>>, <<16, 192>>, <<253, 192>>}
StackSamples == {<<0, 0>>, <<52, 18>>}
RegisterSamples ==
    {Registers_default,
     [Registers_default EXCEPT !.a = 16, !.b = 18, !.c = 52, !.d = 86, !.e = 120,
                               !.h = 192, !.l = 2]}

Poke(cells, address, value) ==
    IF address < RAM_SIZE THEN set(cells, address, value) ELSE cells

Image(pc, sp, operand, stack) ==
    Poke(Poke(Poke(Poke(Ram_new, sp, stack[1]), sp + 1, stack[2]),
              pc + 1, operand[1]), pc + 2, operand[2])

TblIdle == [phase |-> "idle", pos |-> 0, keys |-> {}]
AluIdle == [fn |-> "none", a |-> 0, b |-> 0, f |-> 0, out |-> AluOk(One(0), 0)]

Executed(via, k) == [via |-> via, op |-> k, r0 |-> r, m0 |-> m]

Init ==
    /\ build \in Builds
    /\ \E base \in RegisterSamples, pc \in PcSamples, sp \in SpSamples, f \in FlagSamples :
          r = [base EXCEPT !.pc = pc, !.sp = sp, !.f = f]
    /\ \E operand \in OperandSamples, stack \in StackSamples :
          m = Image(r.pc, r.sp, operand, stack)
    /\ fault = "none"
    /\ trace = <<>>
    /\ tbl = TblIdle
    /\ alu = AluIdle

\* the state an execute leaves, and the record of the call in trace
Leaves(done, via, k) ==
    /\ r' = done.r
    /\ m' = done.m
    /\ fault' = done.fault
    /\ trace' = Append(trace, Executed(via, k))

\* instruction.execute(&mut memory, &mut registers) for one table entry
Execute ==
    /\ trace = <<>>
    /\ \E k \in InstructionKeys :
          Leaves(Instruction_execute(OpcodeMap[k], r, m), "Instruction::execute", k)
    /\ UNCHANGED <<build, tbl, alu>>

\* cpu.execute(&instruction) for one table entry
CpuExecute ==
    /\ trace = <<>>
    /\ \E k \in InstructionKeys :
          Leaves(Cpu_execute(OpcodeMap[k], r, m), "Cpu::execute", k)
    /\ UNCHANGED <<build, tbl, alu>>

Next == Execute \/ CpuExecute

Spec == Init /\ [][Next]_vars

(***************************************************************************)
(* The ALU called directly on 8-bit operands, as tests/ops.rs calls it:    *)
(* every pair of bytes, under a few values of the flags byte.              *)
(***************************************************************************)
AluFlagSamples == {0, 16, 240}

InitAlu ==
    /\ build \in Builds
    /\ r = Registers_default
    /\ m = Ram_new
    /\ fault = "none"
    /\ trace = <<>>
    /\ tbl = TblIdle
    /\ \E a \in Byte, b \in Byte, f \in AluFlagSamples :
          alu = [AluIdle EXCEPT !.a = a, !.b = b, !.f = f]

Called(fn, out) ==
    /\ alu.fn = "none"
    /\ alu' = [alu EXCEPT !.fn = fn, !.out = out]
    /\ UNCHANGED <<build, r, m, fault, trace, tbl>>

\* alu::add(&a.into(), &b.into(), &mut flags)
AluAdd == Called("add", add(One(alu.a), One(alu.b), alu.f))

\* alu::adc(&a.into(), &b.into(), &mut flags)
AluAdc == Called("adc", adc(One(alu.a), One(alu.b), alu.f))

\* alu::sub(&a.into(), &b.into(), &mut flags)
AluSub == Called("sub", sub(One(alu.a), One(alu.b), alu.f))

\* alu::sbc(&a.into(), &b.into(), &mut flags)
AluSbc == Called("sbc", sbc(One(alu.a), One(alu.b), alu.f))

\* alu::cp(a, b, &mut flags), which returns nothing
AluCp == Called("cp", AluOk(One(alu.a), cp(alu.a, alu.b, alu.f)))

NextAlu == AluAdd \/ AluAdc \/ AluSub \/ AluSbc \/ AluCp

SpecAlu == InitAlu /\ [][NextAlu]_vars

(***************************************************************************)
(* Claims about the ALU.                                                   *)
(***************************************************************************)
\* C8: the 8-bit sub of a value from itself returns 0 with Z = 1, N = 1,
\* H = 0 and C = 0, for every byte a.
C8_SubSelf ==
    (alu.fn = "sub" /\ alu.a = alu.b) =>
        /\ alu.out.fault = "none"
        /\ alu.out.res = One(0)
        /\ zero(alu.out.f)
        /\ subtraction(alu.out.f)
        /\ ~half_carry(alu.out.f)
        /\ ~carry(alu.out.f)

\* C9: the 8-bit sub(a, b) returns (a - b) mod 256 with N set, Z exactly when
\* the result is 0, C exactly when a < b and H exactly when the low nibble of
\* a is below the low nibble of b.
C9_SubFlags ==
    alu.fn = "sub" =>
        /\ alu.out.fault = "none"
        /\ alu.out.res = One((alu.a - alu.b + 256) % 256)
        /\ subtraction(alu.out.f)
        /\ zero(alu.out.f) <=> (alu.a = alu.b)
        /\ carry(alu.out.f) <=> (alu.a < alu.b)
        /\ half_carry(alu.out.f) <=> ((alu.a % 16) < (alu.b % 16))

\* the carry-in of the call recorded in alu: the C flag for adc, 0 for add
CarryIn == IF alu.fn = "adc" /\ carry(alu.f) THEN 1 ELSE 0

\* C10: the 8-bit add (carry-in 0) and adc (carry-in the C flag) return
\* (a + b + c) mod 256 with C exactly when a + b + c > 255, H exactly when
\* (a & 0xF) + (b & 0xF) + c > 0xF, Z exactly when the result is 0, N cleared.
C10_AddAdcFlags ==
    alu.fn \in {"add", "adc"} =>
        /\ alu.out.fault = "none"
        /\ alu.out.res = One((alu.a + alu.b + CarryIn) % 256)
        /\ carry(alu.out.f) <=> (alu.a + alu.b + CarryIn > 255)
        /\ half_carry(alu.out.f) <=> ((alu.a % 16) + (alu.b % 16) + CarryIn > 15)
        /\ zero(alu.out.f) <=> ((alu.a + alu.b + CarryIn) % 256 = 0)
        /\ ~subtraction(alu.out.f)

\* an adc whose half carry and zero result are owed to the carry-in alone
C10_Witness ==
    /\ alu.fn = "adc"
    /\ alu.a = 255
    /\ alu.b = 0
    /\ carry(alu.f)
    /\ alu.out.res = One(0)
    /\ half_carry(alu.out.f)
    /\ carry(alu.out.f)

\* C11: the 8-bit sbc(a, b) with incoming carry c returns (a - b - c) mod 256
\* with N set, Z exactly when the result is 0, and C exactly when a < b + c,
\* the sum b + c taken over the integers 0..256.
C11_SbcFlags ==
    alu.fn = "sbc" =>
        LET c == IF carry(alu.f) THEN 1 ELSE 0
        IN  /\ alu.out.fault = "none"
            /\ alu.out.res = One((alu.a - alu.b - c + 512) % 256)
            /\ subtraction(alu.out.f)
            /\ zero(alu.out.f) <=> ((alu.a - alu.b - c + 512) % 256 = 0)
            /\ carry(alu.out.f) <=> (alu.a < alu.b + c)

\* C12 (flags): cp(a, b) leaves exactly the flags byte that the 8-bit
\* sub(a, b) leaves from the same incoming flags.
C12_CpFlagsAsSub ==
    alu.fn = "cp" => alu.out.f = sub(One(alu.a), One(alu.b), alu.f).f

(***************************************************************************)
(* Decimal arithmetic on the accumulator: an 8-bit add, adc, sub or sbc of *)
(* a packed-BCD operand into r.a, each followed at once by daa, as the     *)
(* arms Add, Adc, Sub, Sbc and Daa of execute call the ALU on r.a and r.f. *)
(***************************************************************************)
Bcd == {x \in Byte : (x \div 16) <= 9 /\ (x % 16) <= 9}

InitBcd ==
    /\ build \in Builds
    /\ \E a \in Bcd, f \in AluFlagSamples : r = [Registers_default EXCEPT !.a = a, !.f = f]
    /\ m = Ram_new
    /\ fault = "none"
    /\ trace = <<>>
    /\ tbl = TblIdle
    /\ alu = AluIdle

\* r.a = alu::<fn>(&r.a.into(), &operand.into(), &mut r.f), with daa due next
Accumulate(fn, out) ==
    /\ alu.fn = "none"
    /\ fault = "none"
    /\ r' = [r EXCEPT !.a = out.res.v, !.f = out.f]
    /\ fault' = out.fault
    /\ alu' = [AluIdle EXCEPT !.fn = fn]
    /\ UNCHANGED <<build, m, trace, tbl>>

BcdAdd == \E b \in Bcd : Accumulate("add", add(One(r.a), One(b), r.f))

BcdAdc == \E b \in Bcd : Accumulate("adc", adc(One(r.a), One(b), r.f))

BcdSub == \E b \in Bcd : Accumulate("sub", sub(One(r.a), One(b), r.f))

BcdSbc == \E b \in Bcd : Accumulate("sbc", sbc(One(r.a), One(b), r.f))

\* alu::daa(&mut r.a, &mut r.f), right after the arithmetic
BcdDaa ==
    /\ alu.fn # "none"
    /\ fault = "none"
    /\ r' = [r EXCEPT !.a = daa(r.a, r.f).a, !.f = daa(r.a, r.f).f]
    /\ alu' = AluIdle
    /\ UNCHANGED <<build, m, fault, trace, tbl>>

NextBcd == BcdAdd \/ BcdAdc \/ BcdSub \/ BcdSbc \/ BcdDaa

SpecBcd == InitBcd /\ [][NextBcd]_vars

\* C13: from a packed-BCD accumulator and with packed-BCD operands, whenever
\* every add, adc, sub or sbc has been followed by its daa, both nibbles of
\* the accumulator are in 0..9.
C13_DaaKeepsBcd ==
    (alu.fn = "none" /\ fault = "none") => ((r.a \div 16) <= 9 /\ (r.a % 16) <= 9)

(***************************************************************************)
(* Cpu::new (cpu/cpu.rs): the fields of the struct literal in order, the   *)
(* last of them build_opcode_map(), whose array literal is evaluated one   *)
(* element after the other before HashMap::from_iter sees any of them.     *)
(***************************************************************************)
InitNew ==
    /\ build \in Builds
    /\ r = Registers_default
    /\ m = Ram_new
    /\ fault = "none"
    /\ trace = <<>>
    /\ tbl = [phase |-> "new", pos |-> 0, keys |-> {}]
    /\ alu = AluIdle

\* memory: Ram::new(), registers: Registers::new()
NewFields ==
    /\ tbl.phase = "new"
    /\ m' = Ram_new
    /\ r' = Registers_new
    /\ tbl' = [tbl EXCEPT !.phase = "literal"]
    /\ UNCHANGED <<build, fault, trace, alu>>

\* the next element of the array literal: a tuple of opcode and Instruction, or
\* todo!(); after the last element HashMap::from_iter returns and so does Cpu::new
BuildEntry ==
    /\ tbl.phase = "literal"
    /\ IF OpcodeLiteral[tbl.pos + 1][2] = TodoEntry
       THEN /\ fault' = "not yet implemented"
            /\ tbl' = [tbl EXCEPT !.phase = "panicked"]
       ELSE /\ fault' = fault
            /\ tbl' = [phase |-> IF tbl.pos + 1 = Len(OpcodeLiteral)
                                 THEN "constructed" ELSE "literal",
                       pos |-> tbl.pos + 1,
                       keys |-> tbl.keys \cup {OpcodeLiteral[tbl.pos + 1][1]}]
    /\ UNCHANGED <<build, r, m, trace, alu>>

NextNew == NewFields \/ BuildEntry

SpecNew == InitNew /\ [][NextNew]_vars

(***************************************************************************)
(* Claims about construction.                                              *)
(***************************************************************************)
\* the opcodes below the greatest one the literal has reached
Passed == {b \in Byte : \E k \in tbl.keys : b < k}

\* C1: build_opcode_map gives every opcode byte 0..255 an entry, so that the
\* lookup of Cpu::step finds one for whatever byte is at PC: the literal, which
\* lists its opcodes in rising order, passes no byte over, evaluates every
\* element to an Instruction, and the finished table holds all 256 bytes.
C1_TableTotal ==
    /\ Passed \subseteq tbl.keys
    /\ tbl.phase # "panicked"
    /\ tbl.phase = "constructed" => tbl.keys = Byte

\* C2: Cpu::new() completes, building the table included, and returns a CPU
\* with PC = 0x100, every other register 0 and every memory byte 0.
C2_NewCompletes ==
    /\ fault = "none"
    /\ tbl.phase = "constructed" =>
          /\ r = [a |-> 0, b |-> 0, c |-> 0, d |-> 0, e |-> 0, h |-> 0, l |-> 0,
                  f |-> 0, sp |-> 0, pc |-> 256]
          /\ \A address \in 0..(RAM_SIZE - 1) : get(m, address) = 0

(***************************************************************************)
(* Sequences of stack instructions: the pushes and pops of the four pairs, *)
(* Call and Ret, executed one after the other until one of them panics.    *)
(***************************************************************************)
MaxSeqSteps == 2
SeqKeys == {197, 213, 229, 245, 193, 209, 225, 241, 205, 201}
SeqSpSamples == {0, 53248, 65534}
SeqFlagSamples == {0, 176}

InitSeq ==
    /\ build \in Builds
    /\ \E base \in RegisterSamples, sp \in SeqSpSamples, f \in SeqFlagSamples :
          r = [base EXCEPT !.pc = 256, !.sp = sp, !.f = f]
    /\ \E stack \in StackSamples : m = Image(r.pc, r.sp, <<16, 192>>, stack)
    /\ fault = "none"
    /\ trace = <<>>
    /\ tbl = TblIdle
    /\ alu = AluIdle

\* instruction.execute(&mut memory, &mut registers), again and again
SeqExecute ==
    /\ Len(trace) < MaxSeqSteps
    /\ fault = "none"
    /\ \E k \in SeqKeys :
          Leaves(Instruction_execute(OpcodeMap[k], r, m), "Instruction::execute", k)
    /\ UNCHANGED <<build, tbl, alu>>

\* cpu.execute(&instruction), again and again
SeqCpuExecute ==
    /\ Len(trace) < MaxSeqSteps
    /\ fault = "none"
    /\ \E k \in SeqKeys :
          Leaves(Cpu_execute(OpcodeMap[k], r, m), "Cpu::execute", k)
    /\ UNCHANGED <<build, tbl, alu>>

NextSeq == SeqExecute \/ SeqCpuExecute

SpecSeq == InitSeq /\ [][NextSeq]_vars

(***************************************************************************)
(* A freshly constructed CPU (Registers::new(), Ram::new()) executing a    *)
(* sequence of table entries that move SP, change C, push BC, pop AF and   *)
(* set the carry flag.                                                     *)
(***************************************************************************)
MaxFreshSteps == 6
FreshKeys == {51, 13, 197, 241, 55}

InitFresh ==
    /\ build \in Builds
    /\ r = Registers_new
    /\ m = Ram_new
    /\ fault = "none"
    /\ trace = <<>>
    /\ tbl = TblIdle
    /\ alu = AluIdle

\* instruction.execute(&mut memory, &mut registers) on the fresh CPU's state
FreshExecute ==
    /\ Len(trace) < MaxFreshSteps
    /\ fault = "none"
    /\ \E k \in FreshKeys :
          Leaves(Instruction_execute(OpcodeMap[k], r, m), "Instruction::execute", k)
    /\ UNCHANGED <<build, tbl, alu>>

\* cpu.execute(&instruction) on the fresh CPU
FreshCpuExecute ==
    /\ Len(trace) < MaxFreshSteps
    /\ fault = "none"
    /\ \E k \in FreshKeys :
          Leaves(Cpu_execute(OpcodeMap[k], r, m), "Cpu::execute", k)
    /\ UNCHANGED <<build, tbl, alu>>

NextFresh == FreshExecute \/ FreshCpuExecute

SpecFresh == InitFresh /\ [][NextFresh]_vars

(***************************************************************************)
(* Cpu::step (cpu/cpu.rs) over a program of two opcode bytes at 0x100 and  *)
(* 0x101, followed by the zero bytes of the rest of memory (Nop).          *)
(***************************************************************************)
MaxSteps == 3
StepOpcodes ==
    {0, 60, 34, 16, 118, 217, 251, 243,
     203, 211, 219, 221, 227, 228, 235, 236, 237, 244, 252, 253}

InitStep ==
    /\ build \in Builds
    /\ r = Registers_new
    /\ \E first \in StepOpcodes, second \in StepOpcodes :
          m = Poke(Poke(Ram_new, 256, first), 257, second)
    /\ fault = "none"
    /\ trace = <<>>
    /\ tbl = TblIdle
    /\ alu = AluIdle

\* the unwrap of opcode_map.get(&opcode) on a byte the table has no key for
LookupMiss(opcode) ==
    /\ r' = r
    /\ m' = m
    /\ fault' = "called Option::unwrap() on a None value"
    /\ trace' = Append(trace, Executed("Cpu::step", opcode))

\* cpu.step(): fetch the opcode at PC, look it up, execute it
CpuStep ==
    /\ Len(trace) < MaxSteps
    /\ fault = "none"
    /\ IF read_byte(m, r.pc) \in InstructionKeys
       THEN Leaves(Cpu_execute(OpcodeMap[read_byte(m, r.pc)], r, m), "Cpu::step",
                   read_byte(m, r.pc))
       ELSE LookupMiss(read_byte(m, r.pc))
    /\ UNCHANGED <<build, tbl, alu>>

NextStep == CpuStep

SpecStep == InitStep /\ [][NextStep]_vars

(***************************************************************************)
(* Location::write (cpu/ops.rs) called once, for every Location and a few  *)
(* values of either width.                                                 *)
(***************************************************************************)
ValueSamples == {One(0), One(90), One(255), Two(0), Two(4660), Two(65535)}

InitLoc ==
    /\ build \in Builds
    /\ \E base \in RegisterSamples : r = [base EXCEPT !.pc = 256]
    /\ m = Ram_new
    /\ fault = "none"
    /\ trace = <<>>
    /\ tbl = TblIdle
    /\ alu = AluIdle

\* location.write(registers, memory, values)
LocationWrite ==
    /\ trace = <<>>
    /\ \E loc \in Locations, values \in ValueSamples :
          /\ r' = Location_write(loc, r, m, values).r
          /\ m' = Location_write(loc, r, m, values).m
          /\ fault' = Location_write(loc, r, m, values).fault
          /\ trace' = <<[via |-> "Location::write", loc |-> loc, values |-> values,
                         r0 |-> r, m0 |-> m]>>
    /\ UNCHANGED <<build, tbl, alu>>

NextLoc == LocationWrite

SpecLoc == InitLoc /\ [][NextLoc]_vars

(***************************************************************************)
(* Claims about execute.  Last is the call that led to the current state,  *)
(* with the registers r0 and the memory m0 it started from.                *)
(***************************************************************************)
Last == trace[Len(trace)]
LastIns == OpcodeMap[Last.op]

\* the condition operand of the last instruction held when it was executed
ConditionHeld ==
    LET cc == LastIns.ops[1].loc
        z == (Last.r0.f \div 128) % 2 = 1
        c == (Last.r0.f \div 16) % 2 = 1
    IN  CASE cc = "FlagNz" -> ~z
          [] cc = "FlagZ" -> z
          [] cc = "FlagNc" -> ~c
          [] cc = "FlagC" -> c
          [] OTHER -> FALSE

\* the little-endian word at an address of the memory the last call started from
WordBefore(address) ==
    get(Last.m0, (address + 1) % 65536) * 256 + get(Last.m0, address)

\* the value a register pair had in a register file
PairValue(loc, rg) ==
    CASE loc = "AF" -> rg.a * 256 + rg.f
      [] loc = "BC" -> rg.b * 256 + rg.c
      [] loc = "DE" -> rg.d * 256 + rg.e
      [] loc = "HL" -> rg.h * 256 + rg.l

\* C3: a Call nn (3 bytes) executed at PC = p with SP = s stores the return
\* address p + 3, high byte at s - 1 and low byte at s - 2, sets SP to s - 2
\* and PC to nn; a Callc whose condition holds does the same.
C3_CallPushesReturn ==
    ( /\ trace # <<>>
      /\ LastIns.mn = "Call" \/ (LastIns.mn = "Callc" /\ ConditionHeld)
      /\ Last.r0.pc <= 65532
      /\ Last.r0.sp >= 2 ) =>
        /\ fault = "none"
        /\ r.pc = WordBefore(Last.r0.pc + 1)
        /\ r.sp = Last.r0.sp - 2
        /\ get(m, Last.r0.sp - 1) = (Last.r0.pc + 3) \div 256
        /\ get(m, Last.r0.sp - 2) = (Last.r0.pc + 3) % 256

\* C4: a Ret executed with SP = s sets PC to exactly the word at s (low byte
\* at s, high byte at s + 1) with no further advance, sets SP to s + 2 and
\* changes no memory; a Retc whose condition holds does the same.
C4_RetPopsPc ==
    ( /\ trace # <<>>
      /\ LastIns.mn = "Ret" \/ (LastIns.mn = "Retc" /\ ConditionHeld)
      /\ Last.r0.sp <= 65533 ) =>
        /\ fault = "none"
        /\ r.pc = WordBefore(Last.r0.sp)
        /\ r.sp = Last.r0.sp + 2
        /\ m = Last.m0

\* the last instruction transferred control: a jump, call, return or restart,
\* taken if it is conditional
Transferred ==
    \/ LastIns.mn \in {"Jr", "Jp", "Call", "Ret", "Rst"}
    \/ LastIns.mn \in {"Jrc", "Jpc", "Callc", "Retc"} /\ ConditionHeld

\* the operand a jump or call names as its target, or that holds the offset
TargetOperand ==
    IF LastIns.mn \in {"Jrc", "Jpc", "Callc"} THEN LastIns.ops[2] ELSE LastIns.ops[1]

\* where the last instruction transfers control to
TransferTarget ==
    CASE LastIns.mn \in {"Jr", "Jrc"} ->
            LET offset == get(Last.m0, (Last.r0.pc + 1) % 65536)
            IN  (Last.r0.pc + 2 + (IF offset >= 128 THEN offset - 256 ELSE offset)
                 + 65536) % 65536
      [] LastIns.mn \in {"Jp", "Jpc", "Call", "Callc"} ->
            IF TargetOperand.loc = "HL" THEN PairValue("HL", Last.r0)
            ELSE WordBefore((Last.r0.pc + 1) % 65536)
      [] LastIns.mn \in {"Ret", "Retc"} -> WordBefore(Last.r0.sp)
      [] LastIns.mn = "Rst" -> LastIns.arg

\* C6: after an instruction that does not transfer control PC is the old PC
\* plus the byte length of the instruction; after one that does, PC is
\* exactly the target.
C6_PcAfterExecute ==
    (trace # <<>> /\ fault = "none") =>
        r.pc = IF Transferred THEN TransferTarget
               ELSE (Last.r0.pc + LastIns.bytes) % 65536

\* C7: a Push of a pair with SP = s stores the low byte at (s - 2) mod 65536
\* and the high byte at (s - 1) mod 65536, sets SP to (s - 2) mod 65536 and
\* changes nothing else, for every s, 0 and 1 included, where the arithmetic
\* wraps and does not fail.
C7_PushWraps ==
    ( /\ trace # <<>>
      /\ LastIns.mn = "Push"
      /\ Last.r0.pc < 65535 ) =>
        LET low_at == (Last.r0.sp + 65534) % 65536
            high_at == (Last.r0.sp + 65535) % 65536
            value == PairValue(LastIns.ops[1].loc, Last.r0)
        IN  /\ fault = "none"
            /\ r = [Last.r0 EXCEPT !.sp = low_at, !.pc = Last.r0.pc + 1]
            /\ get(m, low_at) = value % 256
            /\ get(m, high_at) = value \div 256
            /\ \A address \in (DOMAIN m \cup DOMAIN Last.m0) \ {low_at, high_at} :
                  get(m, address) = get(Last.m0, address)

\* C5: for each of the pairs AF, BC, DE and HL, every value of the pair and
\* every SP, a Push of the pair followed at once by a Pop into the same pair
\* leaves the pair with the value it had and SP where it was.
C5_PushPopRestores ==
    ( /\ Len(trace) >= 2
      /\ OpcodeMap[trace[Len(trace) - 1].op].mn = "Push"
      /\ LastIns.mn = "Pop"
      /\ LastIns.ops[1] = OpcodeMap[trace[Len(trace) - 1].op].ops[1] ) =>
        /\ fault = "none"
        /\ PairValue(LastIns.ops[1].loc, r)
              = PairValue(LastIns.ops[1].loc, trace[Len(trace) - 1].r0)
        /\ r.sp = trace[Len(trace) - 1].r0.sp

\* the last instruction is one that sets flags: the 8-bit inc and dec, the
\* arithmetic and logic operations, the rotates, Daa, Cpl, Scf and Ccf
SetsFlags ==
    \/ LastIns.mn \in {"Add", "Adc", "Sub", "Sbc", "And", "Or", "Xor", "Cp", "Rlca",
                       "Rrca", "Rla", "Rra", "Daa", "Cpl", "Scf", "Ccf"}
    \/ /\ LastIns.mn \in {"Inc", "Dec"}
       /\ ~(LastIns.ops[1].mode = "Immediate"
             /\ LastIns.ops[1].loc \in {"BC", "DE", "HL", "SP"})

\* C14: in every state reached from a freshly constructed CPU by a sequence
\* of instructions, Pop into AF included, bits 0..3 of F are zero after each
\* instruction that sets flags.
C14_FlagsLowNibbleZero ==
    (trace # <<>> /\ fault = "none" /\ SetsFlags) => r.f % 16 = 0

\* the failures of an instruction that are defects of the operand layer, an
\* Invalid entry or an unimplemented mnemonic
Defects ==
    {"explicit panic", "expected single byte", "expected word", "Expected a 16-bit value",
     "write to a read-only Location", "Invalid arguments",
     "Invalid instruction or not implemented", "not yet implemented"}

\* C15: if executing an instruction fails with such a defect, every register,
\* F and PC included, and every memory cell has the value it had before the
\* instruction.
C15_FailureCommitsNothing ==
    (trace # <<>> /\ fault \in Defects) => (r = Last.r0 /\ m = Last.m0)

\* the last step came onto an Invalid entry or an unimplemented mnemonic
OnInvalidOrUnimplemented ==
    /\ trace # <<>>
    /\ Last.op \in InstructionKeys
    /\ LastIns.mn \in {"Invalid", "Stop", "Halt", "Reti", "Ei", "Di"}

\* C16: stepping onto an opcode whose table entry is Invalid, or whose
\* mnemonic is unimplemented, ends in a failure: PC is not advanced, and the
\* CPU executes no further instruction afterwards.
C16_InvalidHalts ==
    /\ [](OnInvalidOrUnimplemented => (fault # "none" /\ r.pc = Last.r0.pc))
    /\ [][OnInvalidOrUnimplemented => UNCHANGED <<r, m, trace>>]_vars

\* a Nop has been stepped over and the step onto 0xCB after it has failed
C16_Witness ==
    /\ Len(trace) = 2
    /\ trace[1].op = 0
    /\ trace[2].op = 203
    /\ trace[2].r0.pc = 257
    /\ fault = "Invalid instruction or not implemented"
    /\ r.pc = 257

\* the last instruction is a Ld of an 8-bit value through a Memory operand
StoresByteToMemory ==
    /\ trace # <<>>
    /\ LastIns.mn = "Ld"
    /\ LastIns.ops[1].mode = "Memory"
    /\ LastIns.ops[2].mode = "Immediate"
    /\ LastIns.ops[2].loc \in {"A", "B", "C", "D", "E", "H", "L", "Const8"}

\* the address held by the Location of the Memory operand before the Ld
StoreAddress ==
    IF LastIns.ops[1].loc = "Const16" THEN WordBefore(Last.r0.pc + 1)
    ELSE PairValue(LastIns.ops[1].loc, Last.r0)

\* the byte the Ld takes from its source before it runs
StoredByte ==
    CASE LastIns.ops[2].loc = "A" -> Last.r0.a
      [] LastIns.ops[2].loc = "B" -> Last.r0.b
      [] LastIns.ops[2].loc = "C" -> Last.r0.c
      [] LastIns.ops[2].loc = "D" -> Last.r0.d
      [] LastIns.ops[2].loc = "E" -> Last.r0.e
      [] LastIns.ops[2].loc = "H" -> Last.r0.h
      [] LastIns.ops[2].loc = "L" -> Last.r0.l
      [] LastIns.ops[2].loc = "Const8" -> get(Last.m0, Last.r0.pc + 1)

\* C17: a write of an 8-bit value through a Memory operand succeeds and
\* stores exactly that byte at the address held by the operand's Location;
\* every other cell, the one at address + 1 included, and every register
\* (PC aside, which moves to the next instruction) is unchanged.
C17_MemoryByteWrite ==
    (StoresByteToMemory /\ Last.r0.pc <= 65532) =>
        /\ fault = "none"
        /\ get(m, StoreAddress) = StoredByte
        /\ \A address \in (DOMAIN m \cup DOMAIN Last.m0) \ {StoreAddress} :
              get(m, address) = get(Last.m0, address)
        /\ [r EXCEPT !.pc = 0] = [Last.r0 EXCEPT !.pc = 0]

\* the width of a Location that holds a register, a register pair or SP
OwnWidth(loc) == IF loc \in {"A", "B", "C", "D", "E", "H", "L"} THEN 1 ELSE 2

\* C18: every register, every register pair and SP accepts a write of a value
\* of its own width, and a read of the same Location then returns the written
\* value; the immediates and the four conditions reject a write with a
\* defect.
C18_LocationWrite ==
    (trace # <<>> /\ trace[1].via = "Location::write") =>
        IF trace[1].loc \in {"Const8", "Const16", "FlagNz", "FlagZ", "FlagNc", "FlagC"}
        THEN fault # "none"
        ELSE trace[1].values.w = OwnWidth(trace[1].loc) =>
                /\ fault = "none"
                /\ Location_read(trace[1].loc, r, m) = Read(trace[1].values)

\* the panics of a memory access: Addr::next().unwrap() at 0xFFFF, the index
\* past the last cell and the address assertion of Ram::set_word
MemoryAccessFailures ==
    {"called Option::unwrap() on a None value", "index out of bounds",
     "assertion failed: address.0 < u16::MAX"}

\* C19: no memory access fails or indexes outside the 65,536 cells, for any
\* 16-bit address, the fetch of an 8-bit or 16-bit immediate operand with PC
\* at 0xFFFF or 0xFFFE included.
C19_NoMemoryAccessFailure == fault \notin MemoryAccessFailures

\* the opcodes 0xC6, 0xCE, 0xD6, 0xDE, 0xE6, 0xEE, 0xF6 and 0xBE
ImmediateAluOpcodes == {198, 206, 214, 222, 230, 238, 246, 190}

\* what the documented operation of the last opcode leaves in A, from the
\* A, the carry flag and the operand byte it started with
DocumentedA ==
    LET a == Last.r0.a
        n == get(Last.m0, Last.r0.pc + 1)
        c == (Last.r0.f \div 16) % 2
    IN  CASE Last.op = 198 -> (a + n) % 256
          [] Last.op = 206 -> (a + n + c) % 256
          [] Last.op = 214 -> (a - n + 256) % 256
          [] Last.op = 222 -> (a - n - c + 512) % 256
          [] Last.op = 230 -> BitAnd(a, n)
          [] Last.op = 238 -> BitXor(a, n)
          [] Last.op = 246 -> BitOr(a, n)
          [] Last.op = 190 -> a

\* the value whose being zero the documented operation reports in Z: the new
\* A, or for CP (HL) the difference of A and the byte addressed by HL
DocumentedZero ==
    IF Last.op = 190
    THEN Last.r0.a = get(Last.m0, PairValue("HL", Last.r0))
    ELSE DocumentedA = 0

\* C20: the table entries 0xC6, 0xCE, 0xD6, 0xDE, 0xE6, 0xEE and 0xF6 add,
\* add with carry, subtract, subtract with carry, AND, XOR and OR the
\* immediate byte n into A, and 0xBE compares A with the byte addressed by
\* HL, each leaving the Z flag of its result.
C20_ImmediateAluEntries ==
    (trace # <<>> /\ Last.op \in ImmediateAluOpcodes /\ Last.r0.pc <= 65533) =>
        /\ fault = "none"
        /\ r.a = DocumentedA
        /\ ((r.f \div 128) % 2 = 1) <=> DocumentedZero

\* the byte at p + 1 of the last instruction, as a two's-complement value
SignedOffset ==
    LET d == get(Last.m0, Last.r0.pc + 1)
    IN  IF d >= 128 THEN d - 256 ELSE d

\* the last instruction left every register but PC and every memory cell as
\* it found them
OnlyPcChanged ==
    /\ [r EXCEPT !.pc = 0] = [Last.r0 EXCEPT !.pc = 0]
    /\ m = Last.m0

\* C21: a Jr executed at PC = p, with its offset byte d at p + 1, sets PC to
\* (p + 2 + d) mod 65536, d taken as a signed value in -128..127, and changes
\* no other register, no flag and no memory cell.
C21_JrTarget ==
    (trace # <<>> /\ LastIns.mn = "Jr" /\ Last.r0.pc <= 65534) =>
        /\ fault = "none"
        /\ r.pc = (Last.r0.pc + 2 + SignedOffset + 65536) % 65536
        /\ OnlyPcChanged

\* a Jr at 0x100 with offset byte 0xFD has gone back to 0x00FF
C21_Witness ==
    /\ trace # <<>>
    /\ LastIns.mn = "Jr"
    /\ Last.r0.pc = 256
    /\ get(Last.m0, 257) = 253
    /\ fault = "none"
    /\ r.pc = 255

C23_JpTarget ==
    ( /\ trace # <<>>
      /\ LastIns.mn = "Jp"
      /\ (LastIns.ops[1].loc = "Const16" => Last.r0.pc <= 65533) ) =>
        /\ fault = "none"
        /\ r.pc = IF LastIns.ops[1].loc = "Const16"
                  THEN WordBefore(Last.r0.pc + 1)
                  ELSE PairValue("HL", Last.r0)
        /\ OnlyPcChanged

\* C24: a Jpc, Callc or Retc whose condition is false changes nothing but PC,
\* which advances by the byte length of the instruction (3, 3 and 1); SP,
\* the flags, every other register and every memory cell, the stack
\* included, keep their values.
C24_UntakenChangesOnlyPc ==
    ( /\ trace # <<>>
      /\ LastIns.mn \in {"Jpc", "Callc", "Retc"}
      /\ ~ConditionHeld
      /\ Last.r0.pc + LastIns.bytes <= 65535 ) =>
        /\ fault = "none"
        /\ LastIns.bytes = (IF LastIns.mn = "Retc" THEN 1 ELSE 3)
        /\ r.pc = Last.r0.pc + LastIns.bytes
        /\ OnlyPcChanged

\* a Callc NZ at 0x100 with Z set has fallen through to 0x103 with the stack
\* pointer where it was
C24_Witness ==
    /\ trace # <<>>
    /\ LastIns.mn = "Callc"
    /\ LastIns.ops[1].loc = "FlagNz"
    /\ Last.r0.pc = 256
    /\ Last.r0.f = 128
    /\ fault = "none"
    /\ r.pc = 259
    /\ r.sp = Last.r0.sp

\* C25: an Rst n executed at PC = p with SP = s, n one of 0x00, 0x08, ...,
\* 0x38, stores the high byte of p at s - 1 and the low byte at s - 2, sets
\* SP to s - 2 and sets PC to exactly n.
C25_RstPushesPc ==
    (trace # <<>> /\ LastIns.mn = "Rst" /\ Last.r0.sp >= 2) =>
        /\ fault = "none"
        /\ LastIns.arg \in {0, 8, 16, 24, 32, 40, 48, 56}
        /\ r.pc = LastIns.arg
        /\ r.sp = Last.r0.sp - 2
        /\ get(m, Last.r0.sp - 1) = Last.r0.pc \div 256
        /\ get(m, Last.r0.sp - 2) = Last.r0.pc % 256

\* the value of an 8-bit register named by a Location
ByteOf(loc, rg) ==
    CASE loc = "A" -> rg.a
      [] loc = "B" -> rg.b
      [] loc = "C" -> rg.c
      [] loc = "D" -> rg.d
      [] loc = "E" -> rg.e
      [] loc = "H" -> rg.h
      [] loc = "L" -> rg.l

\* the registers with PC and the 8-bit register named by a Location blanked
Besides(loc, rg) ==
    LET q == [rg EXCEPT !.pc = 0]
    IN  CASE loc = "A" -> [q EXCEPT !.a = 0]
          [] loc = "B" -> [q EXCEPT !.b = 0]
          [] loc = "C" -> [q EXCEPT !.c = 0]
          [] loc = "D" -> [q EXCEPT !.d = 0]
          [] loc = "E" -> [q EXCEPT !.e = 0]
          [] loc = "H" -> [q EXCEPT !.h = 0]
          [] loc = "L" -> [q EXCEPT !.l = 0]

\* the last instruction is a Ld into an 8-bit register
LoadsByteRegister ==
    /\ trace # <<>>
    /\ LastIns.mn = "Ld"
    /\ LastIns.ops[1].mode = "Immediate"
    /\ LastIns.ops[1].loc \in {"A", "B", "C", "D", "E", "H", "L"}

\* the byte the source of that Ld held before the instruction
LoadedByte ==
    LET src == LastIns.ops[2]
        p == Last.r0.pc
        held == IF src.loc = "Const8" THEN get(Last.m0, p + 1)
                ELSE IF src.loc \in {"A", "B", "C", "D", "E", "H", "L"}
                THEN ByteOf(src.loc, Last.r0)
                ELSE 0
    IN  CASE src.mode = "Immediate" -> held
          [] src.mode = "Memory" ->
                get(Last.m0, IF src.loc = "Const16" THEN WordBefore(p + 1)
                             ELSE PairValue(src.loc, Last.r0))
          [] src.mode = "HighMemory" -> get(Last.m0, 65280 + held)

\* C26: after a Ld into an 8-bit register the destination holds the value
\* the source had before the instruction, whether the source is a register,
\* the immediate byte at PC + 1 or a memory byte; the flags, every other
\* register and every memory cell are unchanged and PC has advanced by the
\* byte length of the instruction.
C26_LdLoadsRegister ==
    (LoadsByteRegister /\ Last.r0.pc + LastIns.bytes <= 65535) =>
        /\ fault = "none"
        /\ ByteOf(LastIns.ops[1].loc, r) = LoadedByte
        /\ Besides(LastIns.ops[1].loc, r) = Besides(LastIns.ops[1].loc, Last.r0)
        /\ m = Last.m0
        /\ r.pc = Last.r0.pc + LastIns.bytes

(***************************************************************************)
(* alu::inc, alu::dec and the four rotates called directly: every byte,    *)
(* and for inc and dec a few 16-bit values, under every value of the upper *)
(* nibble of the flags byte; a dec may follow an inc and then works on the *)
(* inc's result and flags.                                                 *)
(* alu.a and alu.f keep the first operand and the incoming flags, alu.out  *)
(* the value and flags after the calls made so far.                        *)
(***************************************************************************)
UnaryFlagSamples == {16 * k : k \in 0..15}

WideSamples == {0, 1, 15, 16, 255, 256, 4095, 4096, 65535}

InitUnary ==
    /\ build \in Builds
    /\ r = Registers_default
    /\ m = Ram_new
    /\ fault = "none"
    /\ trace = <<>>
    /\ tbl = TblIdle
    /\ \E f \in UnaryFlagSamples :
          \/ \E v \in Byte :
                alu = [AluIdle EXCEPT !.a = v, !.f = f, !.out = AluOk(One(v), f)]
          \/ \E v \in WideSamples :
                alu = [AluIdle EXCEPT !.a = v, !.f = f, !.out = AluOk(Two(v), f)]

\* alu::inc(&value, &mut flags)
UnaryInc ==
    /\ alu.fn = "none"
    /\ alu' = [alu EXCEPT !.fn = "inc", !.out = inc(alu.out.res, alu.out.f)]
    /\ UNCHANGED <<build, r, m, fault, trace, tbl>>

\* alu::dec(&value, &mut flags), on the first operand or on what inc returned
UnaryDec ==
    /\ alu.fn \in {"none", "inc"}
    /\ alu' = [alu EXCEPT !.fn = IF alu.fn = "none" THEN "dec" ELSE "inc, dec",
                          !.out = dec(alu.out.res, alu.out.f)]
    /\ UNCHANGED <<build, r, m, fault, trace, tbl>>

\* a rotate called on the first operand, a byte
Rotated(fn, out) ==
    /\ alu.fn = "none"
    /\ alu.out.res.w = 1
    /\ alu' = [alu EXCEPT !.fn = fn, !.out = AluOk(One(out.res), out.f)]
    /\ UNCHANGED <<build, r, m, fault, trace, tbl>>

\* alu::rlc(value, &mut flags)
UnaryRlc == Rotated("rlc", rlc(alu.a, alu.f))

\* alu::rrc(value, &mut flags)
UnaryRrc == Rotated("rrc", rrc(alu.a, alu.f))

\* alu::rl(value, &mut flags)
UnaryRl == Rotated("rl", rl(alu.a, alu.f))

\* alu::rr(value, &mut flags)
UnaryRr == Rotated("rr", rr(alu.a, alu.f))

NextUnary == UnaryInc \/ UnaryDec \/ UnaryRlc \/ UnaryRrc \/ UnaryRl \/ UnaryRr

SpecUnary == InitUnary /\ [][NextUnary]_vars

\* C27: for every byte v and any incoming flags, 8-bit inc followed by 8-bit
\* dec of the result returns v, and after each of the two operations the zero
\* flag is set iff the result byte of that operation is 0.
C27_IncThenDec ==
    (alu.out.res.w = 1) =>
        /\ alu.fn \in {"inc", "inc, dec"} =>
              /\ alu.out.fault = "none"
              /\ zero(alu.out.f) <=> (alu.out.res.v = 0)
        /\ alu.fn = "inc, dec" => alu.out.res.v = alu.a

\* inc took 0xFF to 0 with Z set, and dec has brought it back to 0xFF with Z
\* clear
C27_Witness ==
    /\ alu.fn = "inc, dec"
    /\ alu.out.res = One(255)
    /\ alu.a = 255
    /\ zero(alu.f)
    /\ ~zero(alu.out.f)

\* the byte handed to the last of the calls made so far
LastOperand == IF alu.fn = "inc, dec" THEN (alu.a + 1) % 256 ELSE alu.a

\* C28: 8-bit inc sets Z iff the result is 0, clears N and sets H iff the low
\* nibble of the operand was 0x0F; 8-bit dec sets Z iff the result is 0, sets
\* N and sets H iff the low nibble of the operand was 0; neither changes the
\* carry flag; inc or dec of a 16-bit operand changes no flag at all.
C28_IncDecFlags ==
    /\ (alu.out.res.w = 1 /\ alu.fn = "inc") =>
          /\ zero(alu.out.f) <=> (alu.out.res.v = 0)
          /\ ~subtraction(alu.out.f)
          /\ half_carry(alu.out.f) <=> (alu.a % 16 = 15)
          /\ carry(alu.out.f) <=> carry(alu.f)
    /\ (alu.out.res.w = 1 /\ alu.fn \in {"dec", "inc, dec"}) =>
          /\ zero(alu.out.f) <=> (alu.out.res.v = 0)
          /\ subtraction(alu.out.f)
          /\ half_carry(alu.out.f) <=> (LastOperand % 16 = 0)
          /\ carry(alu.out.f) <=> carry(alu.f)
    /\ (alu.out.res.w = 2 /\ alu.fn # "none") => alu.out.f = alu.f

\* inc of 0xFF with only the carry set has returned 0 with Z, H and the
\* carry set and N clear
C28_Witness ==
    /\ alu.fn = "inc"
    /\ alu.a = 255
    /\ alu.f = 16
    /\ alu.out.res = One(0)
    /\ alu.out.f = 176

(***************************************************************************)
(* test_sub and test_sub_zero (tests/ops.rs): setup(), a value stored in A *)
(* and an immediate byte at PC + 1, then the execute of an instruction     *)
(* built by hand, which the opcode table does not hold.                    *)
(***************************************************************************)
\* Instruction::new(Mnemonic::Sub(Location::A.imm(), Location::Const8.imm()), 1, 4)
SubImmediate == I_new(Mn("Sub", <<imm("A"), imm("Const8")>>), 1, 4)

ImmediateSamples == {0, 5, 15, 16, 17, 255}

InitTest ==
    /\ build \in Builds
    /\ \E a \in Byte : r = [Registers_default EXCEPT !.a = a]
    /\ \E n \in ImmediateSamples : m = set(Ram_new, Registers_default.pc + 1, n)
    /\ fault = "none"
    /\ trace = <<>>
    /\ tbl = TblIdle
    /\ alu = AluIdle

\* instruction.execute(&mut memory, &mut registers)
TestSub ==
    /\ trace = <<>>
    /\ LET done == Instruction_execute(SubImmediate, r, m)
       IN  /\ r' = done.r
           /\ m' = done.m
           /\ fault' = done.fault
    /\ trace' = <<[via |-> "Instruction::execute", ins |-> SubImmediate,
                   r0 |-> r, m0 |-> m]>>
    /\ UNCHANGED <<build, tbl, alu>>

NextTest == TestSub

SpecTest == InitTest /\ [][NextTest]_vars

\* C29: Sub(A, immediate) executed from F = 0 with A = 0x10 and immediate
\* 0x05 leaves A = 0x0B and F = 0x40 (N alone), and with A = 0x10 and
\* immediate 0x10 leaves A = 0x00 and F = 0xC0 (Z and N).
C29_SubImmediate ==
    ( /\ trace # <<>>
      /\ trace[1].ins = SubImmediate
      /\ trace[1].r0.f = 0
      /\ trace[1].r0.a = 16 ) =>
        LET n == get(trace[1].m0, trace[1].r0.pc + 1)
        IN  /\ n = 5 => (fault = "none" /\ r.a = 11 /\ r.f = 64)
            /\ n = 16 => (fault = "none" /\ r.a = 0 /\ r.f = 192)

\* the Sub of test_sub has run: 0x10 - 0x05 left 0x0B in A and N alone in F
C29_Witness ==
    /\ trace # <<>>
    /\ trace[1].ins = SubImmediate
    /\ trace[1].r0.a = 16
    /\ trace[1].r0.f = 0
    /\ get(trace[1].m0, trace[1].r0.pc + 1) = 5
    /\ r.a = 11
    /\ r.f = 64

\* C30: every ALU function returns a result without aborting, for every pair
\* of same-width operands and every incoming flags byte; a result that
\* exceeds the operand width comes back wrapped into the width.
C30_AluNeverAborts ==
    alu.fn # "none" =>
        /\ alu.out.fault = "none"
        /\ alu.out.res.w = 1
        /\ alu.out.res.v \in Byte

(***************************************************************************)
(* alu::add called directly on 16-bit operands: pairs of values around the *)
(* borders of bit 11 and bit 15, under every value of the upper nibble of  *)
(* the flags byte.                                                         *)
(***************************************************************************)
InitWide ==
    /\ build \in Builds
    /\ r = Registers_default
    /\ m = Ram_new
    /\ fault = "none"
    /\ trace = <<>>
    /\ tbl = TblIdle
    /\ \E a \in WideSamples, b \in WideSamples, f \in UnaryFlagSamples :
          alu = [AluIdle EXCEPT !.a = a, !.b = b, !.f = f]

\* alu::add(&Bytes::Two(a), &Bytes::Two(b), &mut flags)
WideAdd == Called("add", add(Two(alu.a), Two(alu.b), alu.f))

NextWide == WideAdd

SpecWide == InitWide /\ [][NextWide]_vars

\* C31: for 16-bit a and b, 16-bit add returns (a + b) mod 65536, clears N,
\* sets H iff (a & 0x0FFF) + (b & 0x0FFF) > 0x0FFF, sets C iff
\* a + b > 0xFFFF, and leaves Z exactly as it was before the operation.
C31_WideAddFlags ==
    alu.fn = "add" =>
        /\ alu.out.fault = "none"
        /\ alu.out.res = Two((alu.a + alu.b) % 65536)
        /\ ~subtraction(alu.out.f)
        /\ half_carry(alu.out.f) <=> ((alu.a % 4096) + (alu.b % 4096) > 4095)
        /\ carry(alu.out.f) <=> (alu.a + alu.b > 65535)
        /\ zero(alu.out.f) <=> zero(alu.f)

\* 0xFFFF + 1 came back as 0 with H and C set and Z still clear
C31_Witness ==
    /\ alu.fn = "add"
    /\ alu.a = 65535
    /\ alu.b = 1
    /\ alu.f = 0
    /\ alu.out.res = Two(0)
    /\ alu.out.f = 48

\* bit i of a byte
BitOf(v, i) == (v \div (2 ^ i)) % 2

\* C32: for every byte v and incoming carry c, rlc returns v rotated left
\* with bit 7 moved to bit 0, rrc v rotated right with bit 0 moved to bit 7,
\* rl returns ((v << 1) mod 256) | c and rr returns (v >> 1) | (c << 7); each
\* clears Z, N and H and sets C to the bit that left v.
C32_Rotates ==
    alu.fn \in {"rlc", "rrc", "rl", "rr"} =>
        LET v == alu.a
            c == IF carry(alu.f) THEN 1 ELSE 0
            res == alu.out.res.v
            left == alu.fn \in {"rlc", "rl"}
            entering == CASE alu.fn = "rlc" -> BitOf(v, 7)
                          [] alu.fn = "rrc" -> BitOf(v, 0)
                          [] OTHER -> c
        IN  /\ alu.out.fault = "none"
            /\ res \in Byte
            /\ left => /\ BitOf(res, 0) = entering
                       /\ \A i \in 1..7 : BitOf(res, i) = BitOf(v, i - 1)
            /\ ~left => /\ BitOf(res, 7) = entering
                        /\ \A i \in 0..6 : BitOf(res, i) = BitOf(v, i + 1)
            /\ ~zero(alu.out.f)
            /\ ~subtraction(alu.out.f)
            /\ ~half_carry(alu.out.f)
            /\ carry(alu.out.f) <=> (BitOf(v, IF left THEN 7 ELSE 0) = 1)

\* rl of 0x80 with the carry clear has returned 0 with only the carry set
C32_Witness ==
    /\ alu.fn = "rl"
    /\ alu.a = 128
    /\ alu.f = 0
    /\ alu.out.res = One(0)
    /\ alu.out.f = 16

(***************************************************************************)
(* The register pairs of Registers (memory/ram.rs) called directly: one    *)
(* getter, or one of the two setters the struct has, on registers whose    *)
(* eight cells are drawn from a few bytes.                                 *)
(***************************************************************************)
CellSamples == {0, 66, 255}

WordSamples == {0, 4660, 17219, 65535}

InitPair ==
    /\ build \in Builds
    /\ \E a \in CellSamples, f \in CellSamples, b \in CellSamples, c \in CellSamples,
          d \in CellSamples, e \in CellSamples, h \in CellSamples, l \in CellSamples :
          r = [Registers_default EXCEPT !.a = a, !.f = f, !.b = b, !.c = c,
                                        !.d = d, !.e = e, !.h = h, !.l = l]
    /\ m = Ram_new
    /\ fault = "none"
    /\ trace = <<>>
    /\ tbl = TblIdle
    /\ alu = AluIdle

\* registers.af(), registers.bc(), registers.de() or registers.hl()
PairRead ==
    /\ trace = <<>>
    /\ \E pair \in {"AF", "BC", "DE", "HL"} :
          trace' = <<[via |-> "get", pair |-> pair, r0 |-> r,
                      bytes |-> CASE pair = "AF" -> af(r)
                                  [] pair = "BC" -> bc(r)
                                  [] pair = "DE" -> de(r)
                                  [] pair = "HL" -> hl(r)]>>
    /\ UNCHANGED <<build, r, m, fault, tbl, alu>>

\* registers.set_bc(&Bytes::Two(w))
PairSetBc ==
    /\ trace = <<>>
    /\ \E w \in WordSamples :
          /\ r' = set_bc(r, Two(w)).r
          /\ fault' = set_bc(r, Two(w)).fault
          /\ trace' = <<[via |-> "set", pair |-> "BC", r0 |-> r, bytes |-> Two(w)]>>
    /\ UNCHANGED <<build, m, tbl, alu>>

\* registers.set_hl(&Bytes::Two(w))
PairSetHl ==
    /\ trace = <<>>
    /\ \E w \in WordSamples :
          /\ r' = set_hl(r, Two(w)).r
          /\ fault' = set_hl(r, Two(w)).fault
          /\ trace' = <<[via |-> "set", pair |-> "HL", r0 |-> r, bytes |-> Two(w)]>>
    /\ UNCHANGED <<build, m, tbl, alu>>

NextPair == PairRead \/ PairSetBc \/ PairSetHl

SpecPair == InitPair /\ [][NextPair]_vars

\* the high and the low cell of a pair
HighCell(pair, rg) ==
    CASE pair = "AF" -> rg.a [] pair = "BC" -> rg.b [] pair = "DE" -> rg.d [] pair = "HL" -> rg.h

LowCell(pair, rg) ==
    CASE pair = "AF" -> rg.f [] pair = "BC" -> rg.c [] pair = "DE" -> rg.e [] pair = "HL" -> rg.l

\* the registers with the two cells of a pair blanked
OutsidePair(pair, rg) ==
    CASE pair = "BC" -> [rg EXCEPT !.b = 0, !.c = 0]
      [] pair = "HL" -> [rg EXCEPT !.h = 0, !.l = 0]
      [] OTHER -> rg

AddrSamples == {0, 255, 256, 49152, 65534, 65535}

\* a memory with the byte 0xAA at and around every sampled address
FilledRam ==
    [a \in UNION {{x - 1, x, x + 1, x + 2} \cap (0..65535) : x \in AddrSamples} |-> 170]

InitRam ==
    /\ build \in Builds
    /\ r = Registers_default
    /\ m \in {Ram_new, FilledRam}
    /\ fault = "none"
    /\ trace = <<>>
    /\ tbl = TblIdle
    /\ alu = AluIdle

\* memory.set_word(Addr(a), &Bytes::Two(w))
RamSetWord ==
    /\ trace = <<>>
    /\ \E a \in AddrSamples, w \in WordSamples :
          /\ m' = set_word(m, a, Two(w)).m
          /\ fault' = set_word(m, a, Two(w)).fault
          /\ trace' = <<[via |-> "Ram::set_word", address |-> a, word |-> w,
                         m0 |-> m, got |-> get_word(Ram_new, 0)]>>
    /\ UNCHANGED <<build, r, tbl, alu>>

\* memory.get_word(Addr(a)) after the set_word has returned
RamGetWord ==
    /\ Len(trace) = 1
    /\ fault = "none"
    /\ \E a \in AddrSamples :
          trace' = Append(trace, [via |-> "Ram::get_word", address |-> a,
                                  word |-> 0, m0 |-> m, got |-> get_word(m, a)])
    /\ UNCHANGED <<build, r, m, fault, tbl, alu>>

NextRam == RamSetWord \/ RamGetWord

SpecRam == InitRam /\ [][NextRam]_vars

\* C34: writing the word w at address a stores the low byte of w at a and
\* the high byte at a + 1 and changes no other cell, and reading the word at
\* a afterwards returns w.  Stated for a <= 0xFFFE, where a + 1 is an
\* address.
C34_WordsLittleEndian ==
    (trace # <<>> /\ trace[1].address <= 65534) =>
        LET a == trace[1].address
            w == trace[1].word
        IN  /\ fault = "none"
            /\ get(m, a) = w % 256
            /\ get(m, a + 1) = w \div 256
            /\ \A x \in (DOMAIN m \cup DOMAIN trace[1].m0) \ {a, a + 1} :
                  get(m, x) = get(trace[1].m0, x)
            /\ (Len(trace) = 2 /\ trace[2].address = a) =>
                  trace[2].got = [some |-> TRUE, v |-> w]

\* 0x1234 was stored at 0xFFFE of the filled memory, 0x34 at 0xFFFE and 0x12
\* at 0xFFFF, and has been read back
C34_Witness ==
    /\ Len(trace) = 2
    /\ trace[1].address = 65534
    /\ trace[1].word = 4660
    /\ trace[1].m0 = FilledRam
    /\ get(m, 65534) = 52
    /\ get(m, 65535) = 18
    /\ trace[2].address = 65534
    /\ trace[2].got = [some |-> TRUE, v |-> 4660]

\* the last instruction is a Ld with a HighMemory operand on one side and A
\* on the other
UsesHighMemory ==
    /\ trace # <<>>
    /\ LastIns.mn = "Ld"
    /\ \E i \in 1..2 : LastIns.ops[i].mode = "HighMemory"

\* 0xFF00 + n, n the byte held by the Location of the HighMemory operand
HighAddress ==
    LET op == IF LastIns.ops[1].mode = "HighMemory" THEN LastIns.ops[1] ELSE LastIns.ops[2]
    IN  65280 + (IF op.loc = "Const8" THEN get(Last.m0, Last.r0.pc + 1) ELSE Last.r0.c)

\* C35: a HighMemory operand whose Location holds the byte n reads and
\* writes the single byte at 0xFF00 + n: a load from it puts that byte into
\* A and changes no memory, a store to it puts A into that cell and changes
\* no other cell, none below 0xFF00 in particular.
C35_HighMemoryByte ==
    (UsesHighMemory /\ Last.r0.pc + LastIns.bytes <= 65535) =>
        /\ fault = "none"
        /\ HighAddress \in 65280..65535
        /\ IF LastIns.ops[1].mode = "HighMemory"
           THEN /\ get(m, HighAddress) = Last.r0.a
                /\ \A x \in (DOMAIN m \cup DOMAIN Last.m0) \ {HighAddress} :
                      get(m, x) = get(Last.m0, x)
                /\ [r EXCEPT !.pc = 0] = [Last.r0 EXCEPT !.pc = 0]
           ELSE /\ r.a = get(Last.m0, HighAddress)
                /\ m = Last.m0
                /\ [r EXCEPT !.pc = 0, !.a = 0] = [Last.r0 EXCEPT !.pc = 0, !.a = 0]

\* C36: for every PC p and SP s, a Call nn executed at p completes, and a
\* Ret executed next, as the first instruction at nn, leaves SP equal to s
\* and PC equal to p + 3, the address of the instruction after the Call.
C36_CallThenRet ==
    /\ (trace # <<>> /\ LastIns.mn = "Call" /\ Len(trace) = 1) => fault = "none"
    /\ ( /\ Len(trace) = 2
         /\ OpcodeMap[trace[1].op].mn = "Call"
         /\ LastIns.mn = "Ret" ) =>
            /\ fault = "none"
            /\ r.sp = trace[1].r0.sp
            /\ r.pc = trace[1].r0.pc + 3

\* the bytes an operand takes after the opcode: 1 for Const8, 2 for Const16
OperandBytes(op) ==
    CASE op.loc = "Const8" -> 1
      [] op.loc = "Const16" -> 2
      [] OTHER -> 0

\* 1 for the opcode plus the bytes of the operands of the mnemonic
EncodedLength(ins) ==
    1 + (IF Len(ins.ops) >= 1 THEN OperandBytes(ins.ops[1]) ELSE 0)
      + (IF Len(ins.ops) >= 2 THEN OperandBytes(ins.ops[2]) ELSE 0)

\* C37: the byte length declared for a table entry is 1 plus 1 for each
\* Const8 operand plus 2 for each Const16 operand of its mnemonic, so that
\* an instruction that does not transfer control leaves PC on the opcode
\* byte of the next instruction.
C37_DeclaredLength ==
    trace # <<>> =>
        /\ LastIns.bytes = EncodedLength(LastIns)
        /\ (fault = "none" /\ ~Transferred) =>
              r.pc = (Last.r0.pc + EncodedLength(LastIns)) % 65536

\* Ld BC, nn, declared three bytes long, has run at 0x100 and left PC at
\* 0x103
C37_Witness ==
    /\ trace # <<>>
    /\ LastIns.mn = "Ld"
    /\ LastIns.ops = <<imm("BC"), imm("Const16")>>
    /\ LastIns.bytes = 3
    /\ Last.r0.pc = 256
    /\ fault = "none"
    /\ r.pc = 259

(***************************************************************************)
(* alu::and, alu::xor and alu::or called directly on every pair of bytes,  *)
(* from the states the other two-operand functions are called from.        *)
(***************************************************************************)
Answered(fn, out) == Called(fn, AluOk(One(out.res), out.f))

\* alu::and(a, b, &mut flags)
LogicAnd == Answered("and", and(alu.a, alu.b, alu.f))

\* alu::xor(a, b, &mut flags)
LogicXor == Answered("xor", xor(alu.a, alu.b, alu.f))

\* alu::or(a, b, &mut flags)
LogicOr == Answered("or", or(alu.a, alu.b, alu.f))

NextLogic == LogicAnd \/ LogicXor \/ LogicOr

SpecLogic == InitAlu /\ [][NextLogic]_vars

\* C38: for all bytes a and b, and, or and xor return the bitwise AND, OR
\* and XOR of a and b, set Z iff the result is 0 and clear N and C; and sets
\* H, or and xor clear H.
C38_LogicFlags ==
    alu.fn \in {"and", "or", "xor"} =>
        LET res == alu.out.res.v
        IN  /\ alu.out.fault = "none"
            /\ res \in Byte
            /\ \A i \in 0..7 :
                  BitOf(res, i) =
                      CASE alu.fn = "and" -> BitOf(alu.a, i) * BitOf(alu.b, i)
                        [] alu.fn = "or" -> IF BitOf(alu.a, i) + BitOf(alu.b, i) > 0 THEN 1 ELSE 0
                        [] alu.fn = "xor" -> (BitOf(alu.a, i) + BitOf(alu.b, i)) % 2
            /\ zero(alu.out.f) <=> (res = 0)
            /\ ~subtraction(alu.out.f)
            /\ ~carry(alu.out.f)
            /\ half_carry(alu.out.f) <=> (alu.fn = "and")

\* 0xF0 and 0x0F from flags 0xF0 has returned 0 with Z and H set, N and C
\* clear
C38_Witness ==
    /\ alu.fn = "and"
    /\ alu.a = 240
    /\ alu.b = 15
    /\ alu.f = 240
    /\ alu.out.res = One(0)
    /\ alu.out.f = 160

(***************************************************************************)
(* Cpl, Scf and Ccf executed one after the other, from every value of A    *)
(* and a few values of F.                                                  *)
(***************************************************************************)
MaxFlagSteps == 2

FlagKeys == {47, 55, 63}

InitFlagOps ==
    /\ build \in Builds
    /\ \E base \in RegisterSamples, a \in Byte, f \in FlagSamples :
          r = [base EXCEPT !.pc = 256, !.a = a, !.f = f]
    /\ m = Ram_new
    /\ fault = "none"
    /\ trace = <<>>
    /\ tbl = TblIdle
    /\ alu = AluIdle

\* instruction.execute(&mut memory, &mut registers) for Cpl, Scf or Ccf
FlagOpsExecute ==
    /\ Len(trace) < MaxFlagSteps
    /\ fault = "none"
    /\ \E k \in FlagKeys :
          Leaves(Instruction_execute(OpcodeMap[k], r, m), "Instruction::execute", k)
    /\ UNCHANGED <<build, tbl, alu>>

\* cpu.execute(&instruction) for Cpl, Scf or Ccf
FlagOpsCpuExecute ==
    /\ Len(trace) < MaxFlagSteps
    /\ fault = "none"
    /\ \E k \in FlagKeys :
          Leaves(Cpu_execute(OpcodeMap[k], r, m), "Cpu::execute", k)
    /\ UNCHANGED <<build, tbl, alu>>

NextFlagOps == FlagOpsExecute \/ FlagOpsCpuExecute

SpecFlagOps == InitFlagOps /\ [][NextFlagOps]_vars

\* C39: Cpl replaces A by its bitwise complement and sets N and H; Scf sets
\* C; Ccf inverts C and clears N and H; none of the three changes Z, a
\* register other than A and F, or memory; a Cpl executed after a Cpl
\* restores A.
C39_CplScfCcf ==
    trace # <<>> =>
        /\ fault = "none"
        /\ LastIns.mn = "Cpl" =>
              /\ \A i \in 0..7 : BitOf(r.a, i) = 1 - BitOf(Last.r0.a, i)
              /\ subtraction(r.f)
              /\ half_carry(r.f)
        /\ LastIns.mn = "Scf" => carry(r.f)
        /\ LastIns.mn = "Ccf" =>
              /\ carry(r.f) <=> ~carry(Last.r0.f)
              /\ ~subtraction(r.f)
              /\ ~half_carry(r.f)
        /\ zero(r.f) <=> zero(Last.r0.f)
        /\ [r EXCEPT !.a = 0, !.f = 0, !.pc = 0] = [Last.r0 EXCEPT !.a = 0, !.f = 0, !.pc = 0]
        /\ m = Last.m0
        /\ (Len(trace) = 2 /\ OpcodeMap[trace[1].op].mn = "Cpl" /\ LastIns.mn = "Cpl") =>
              r.a = trace[1].r0.a

\* two Cpl in a row: 0x5A became 0xA5 and is 0x5A again, with N and H set
C39_Witness ==
    /\ Len(trace) = 2
    /\ OpcodeMap[trace[1].op].mn = "Cpl"
    /\ LastIns.mn = "Cpl"
    /\ trace[1].r0.a = 90
    /\ trace[2].r0.a = 165
    /\ r.a = 90
    /\ subtraction(r.f)
    /\ half_carry(r.f)

====
